---------------------------- MODULE Spec2Model ----------------------------
(***************************************************************************)
(* A model of ofxstatement-spardabank (src/src/ofxstatement_spardabank/    *)
(* plugin.py): the header reader, the line normalizer, the reference       *)
(* tokenizer, the default-segment sub-parser, the transaction assembler    *)
(* and the statement assembler.                                            *)
(*                                                                         *)
(* A Python str is modelled as a sequence of one-character strings, so     *)
(* that slicing, searching and concatenation are computed as the code      *)
(* computes them.  The file is decoded as Latin-1 (line 186), so the      *)
(* characters are those of Latin-1, each the one-character string of      *)
(* itself.                                                                 *)
(***************************************************************************)
EXTENDS Integers, Sequences, FiniteSets, TLC

VARIABLES
    \* SpardaBankParser.parse over one file
    pc,         \* where parse() is: the row it reads next, "done", "failed"
    hdr,        \* the rows of the preamble read so far
    kvnames,    \* the fieldnames of the DictReader of the key/value row
    metadata,   \* the Metadata being filled
    fieldnames, \* the fieldnames of the DictReader of the data rows
    rows,       \* the data rows that DictReader has handed out
    lines,      \* statement.lines
    statement,  \* what parse() returned: None, or the Statement
    \* remove_superfluous_reference_whitespace, one loop iteration at a time
    npc, nin, nvalue, ni, nlog,
    \* parse_reference_fields on a reference put together from pieces
    rpc, rref, rfields

vars == <<pc, hdr, kvnames, metadata, fieldnames, rows, lines, statement,
          npc, nin, nvalue, ni, nlog, rpc, rref, rfields>>

parseVars == <<pc, hdr, kvnames, metadata, fieldnames, rows, lines, statement>>
normVars  == <<npc, nin, nvalue, ni, nlog>>
refVars   == <<rpc, rref, rfields>>

-----------------------------------------------------------------------------
(* Characters and Python str operations                                    *)

UUML == "Ü"
LUML_U == "ü"
LUML_A == "ä"

Digits == {"0","1","2","3","4","5","6","7","8","9"}
Upper == {"A","B","C","D","E","F","G","H","I","J","K","L","M",
          "N","O","P","Q","R","S","T","U","V","W","X","Y","Z"}
Lower == {"a","b","c","d","e","f","g","h","i","j","k","l","m",
          "n","o","p","q","r","s","t","u","v","w","x","y","z"}
\* the letters and numeric characters of Latin-1 above U+007F
Latin1Word ==
    {"ª","²","³","µ","¹","º","¼","½","¾","À","Á","Â",
     "Ã","Ä","Å","Æ","Ç","È","É","Ê","Ë","Ì","Í","Î",
     "Ï","Ð","Ñ","Ò","Ó","Ô","Õ","Ö","Ø","Ù","Ú","Û",
     "Ü","Ý","Þ","ß","à","á","â","ã","ä","å","æ","ç",
     "è","é","ê","ë","ì","í","î","ï","ð","ñ","ò","ó",
     "ô","õ","ö","ø","ù","ú","û","ü","ý","þ","ÿ"}
\* \w of a str pattern: Unicode letters, digits and the underscore (the
\* class \b is defined by)
WordChars == Digits \cup Upper \cup Lower \cup {"_"} \cup Latin1Word

\* the whitespace characters of Latin-1 that have no escape in a string:
\* U+000B, U+001C, U+001D, U+001E, U+001F, U+0085 and U+00A0
VT == ""
FS == ""
GS == ""
RS == ""
US == ""
NEL == ""
NBSP == " "
\* \s of a str pattern, and what str.strip() and decimal.Decimal remove
Whitespace == {" ", "\t", "\n", "\f", "\r", VT, FS, GS, RS, US, NEL, NBSP}

DigitVal(c) ==
    CASE c = "0" -> 0 [] c = "1" -> 1 [] c = "2" -> 2 [] c = "3" -> 3
      [] c = "4" -> 4 [] c = "5" -> 5 [] c = "6" -> 6 [] c = "7" -> 7
      [] c = "8" -> 8 [] c = "9" -> 9

Min(a, b) == IF a < b THEN a ELSE b
Max(a, b) == IF a > b THEN a ELSE b

\* s[a:b] with 0 <= a, 0 <= b (0-based, end exclusive, clipped to len(s))
Slice(s, a, b) == SubSeq(s, Min(a, Len(s)) + 1, Min(b, Len(s)))

\* s[i] (0-based)
At(s, i) == s[i + 1]

\* s[p:].startswith(lit)
StartsWithAt(s, p, lit) ==
    /\ p + Len(lit) <= Len(s)
    /\ \A k \in 1..Len(lit) : s[p + k] = lit[k]

\* s.endswith(lit)
EndsWith(s, lit) == Len(lit) <= Len(s) /\ StartsWithAt(s, Len(s) - Len(lit), lit)

\* needle in haystack
Contains(needle, haystack) ==
    \E p \in 0..Len(haystack) : StartsWithAt(haystack, p, needle)

\* s.replace(c, "") for a one-character c
RemoveChar(s, c) == SelectSeq(s, LAMBDA x : x # c)

\* s.replace(c, d) for one-character c and d
ReplaceChar(s, c, d) == [k \in 1..Len(s) |-> IF s[k] = c THEN d ELSE s[k]]

\* s.strip(): the slice between the first and the last non-whitespace
\* character
StripLeftOnly(s) ==
    LET keep == {k \in 1..Len(s) : s[k] \notin Whitespace}
    IN  IF keep = {} THEN <<>>
        ELSE SubSeq(s, CHOOSE a \in keep : \A b \in keep : a <= b, Len(s))
Strip(s) ==
    LET keep == {k \in 1..Len(s) : s[k] \notin Whitespace}
    IN  IF keep = {} THEN <<>>
        ELSE SubSeq(s, CHOOSE a \in keep : \A b \in keep : a <= b,
                       CHOOSE a \in keep : \A b \in keep : a >= b)

\* the length of the run of characters of class cls that starts at s[p]
RunLen(s, p, cls) ==
    LET stops == {q \in p..(Len(s) - 1) : At(s, q) \notin cls}
    IN  IF stops = {} THEN Max(Len(s) - p, 0)
        ELSE (CHOOSE a \in stops : \A b \in stops : a <= b) - p

\* every character of s[p:p+n] is of class cls
AllIn(s, p, n, cls) ==
    /\ p + n <= Len(s)
    /\ \A k \in 1..n : s[p + k] \in cls

\* the decimal value of a sequence of digits
RECURSIVE DigitsVal(_)
DigitsVal(s) ==
    IF s = <<>> THEN 0
    ELSE 10 * DigitsVal(SubSeq(s, 1, Len(s) - 1)) + DigitVal(s[Len(s)])

-----------------------------------------------------------------------------
(* remove_superfluous_reference_whitespace (the line normalizer)           *)

NormStart == 53
NormStride == 54

\* the body of the while loop: value after looking at index i
NormIterDeletesAny(value, i) == Slice(value, 0, i) \o Slice(value, i + 1, Len(value))
NormIter(value, i) ==
    IF At(value, i) = " "
    THEN Slice(value, 0, i) \o Slice(value, i + 1, Len(value))
    ELSE value

RECURSIVE NormLoop(_, _)
NormLoop(value, i) ==
    IF i < Len(value) THEN NormLoop(NormIter(value, i), i + NormStride) ELSE value

remove_superfluous_reference_whitespace(value) == NormLoop(value, NormStart)

-----------------------------------------------------------------------------
(* Literals of the source                                                  *)

\* SepaField members the transaction assembler reads, and "default"
K_default == <<"d","e","f","a","u","l","t">>
END_TO_END_REF == <<"E","R","E","F","+">>
IBAN == <<"I","B","A","N","+">>
BIC == <<"B","I","C","+">>
REF == <<"S","V","W","Z","+">>

\* names of the groups of the card-payment pattern, and "recipient", "type"
K_recipient == <<"r","e","c","i","p","i","e","n","t">>
K_type == <<"t","y","p","e">>
K_card_payment_reference == <<"c","a","r","d","_","p","a","y","m","e","n","t","_","r","e","f","e","r","e","n","c","e">>
K_card_payment_datetime == <<"c","a","r","d","_","p","a","y","m","e","n","t","_","d","a","t","e","t","i","m","e">>
K_card_payment_currency == <<"c","a","r","d","_","p","a","y","m","e","n","t","_","c","u","r","r","e","n","c","y">>
K_card_payment_amount == <<"c","a","r","d","_","p","a","y","m","e","n","t","_","a","m","o","u","n","t">>
K_pan == <<"p","a","n">>
K_card_expiration == <<"c","a","r","d","_","e","x","p","i","r","a","t","i","o","n">>
K_card_data_entry_method == <<"c","a","r","d","_","d","a","t","a","_","e","n","t","r","y","_","m","e","t","h","o","d">>
K_card_payment_auth_method == <<"c","a","r","d","_","p","a","y","m","e","n","t","_","a","u","t","h","_","m","e","t","h","o","d">>

\* transaction-type labels
SEPA_UEBERWEISUNG == <<"S","E","P","A","-",UUML,"B","E","R","W","E","I","S","U","N","G">>
SEPA_LOHN_GEHALT == <<"S","E","P","A","-","L","O","H","N","/","G","E","H","A","L","T">>
SEPA_BASISLASTSCHRIFT == <<"S","E","P","A","-","B","A","S","I","S","L","A","S","T","S","C","H","R","I","F","T">>
GIROCARD == <<"G","I","R","O","C","A","R","D">>
NICHT_GIRO == <<"n","i","c","h","t"," ","G","I","R","O">>

\* literal pieces of the card-payment pattern
OFFLIN == <<"O","F","F","L","I","N">>
L_EC == <<" ","E","C">>
L_PAN == <<"P","A","N"," ">>

\* account-type needles
SpardaGiro == <<"S","p","a","r","d","a","G","i","r","o">>
SpardaYoung == <<"S","p","a","r","d","a","Y","o","u","n","g">>
SpardaTagesgeld == <<"S","p","a","r","d","a","T","a","g","e","s","g","e","l","d">>

\* the booking-date column of the rows split_records drops
NOT_YET_EXECUTED == <<"*"," ","n","o","c","h"," ","n","i","c","h","t"," ","a","u","s","g","e","f",LUML_U,"h","r","t","e"," ","U","m","s",LUML_A,"t","z","e">>

-----------------------------------------------------------------------------
(* parse_default_field (the default-segment sub-parser)                    *)

Pair(k, v) == <<k, v>>

\* \d{2}\.\d{2}\.\d{4} \d{2}\.\d{2}\.\d{2} at s[p:]
DateTimeShapeAt(s, p) ==
    /\ p + 19 <= Len(s)
    /\ \A k \in {0, 1, 3, 4, 6, 7, 8, 9, 11, 12, 14, 15, 17, 18} : At(s, p + k) \in Digits
    /\ \A k \in {2, 5, 13, 16} : At(s, p + k) = "."
    /\ At(s, p + 10) = " "

\* \d{3} (\d{2}/\d{4}) (GIROCARD|nicht GIRO) ([A-Z]{4})/([A-Z]{4})/+\d* at
\* s[q:]: the groups it captures, or ok = FALSE
CardEndAt(s, q) ==
    LET hasGiro == StartsWithAt(s, q + 12, GIROCARD)
        hasNicht == StartsWithAt(s, q + 12, NICHT_GIRO)
        ty == IF hasGiro THEN GIROCARD ELSE NICHT_GIRO
        e == q + 12 + Len(ty)
    IN  IF /\ AllIn(s, q, 3, Digits)
           /\ StartsWithAt(s, q + 3, <<" ">>)
           /\ AllIn(s, q + 4, 2, Digits)
           /\ StartsWithAt(s, q + 6, <<"/">>)
           /\ AllIn(s, q + 7, 4, Digits)
           /\ StartsWithAt(s, q + 11, <<" ">>)
           /\ (hasGiro \/ hasNicht)
           /\ StartsWithAt(s, e, <<" ">>)
           /\ AllIn(s, e + 1, 4, Upper)
           /\ StartsWithAt(s, e + 5, <<"/">>)
           /\ AllIn(s, e + 6, 4, Upper)
           /\ StartsWithAt(s, e + 10, <<"/">>)
        THEN [ok |-> TRUE,
              card_expiration |-> Slice(s, q + 4, q + 11),
              type |-> ty,
              card_data_entry_method |-> Slice(s, e + 1, e + 5),
              card_payment_auth_method |-> Slice(s, e + 6, e + 10)]
        ELSE [ok |-> FALSE]

\* "." matches every character but the newline (the pattern is compiled
\* without re.DOTALL): where the line of index p begins and where it ends
LineStart(s, p) ==
    IF \E k \in 1..p : s[k] = "\n"
    THEN CHOOSE k \in 1..p : s[k] = "\n" /\ \A j \in (k + 1)..p : s[j] # "\n"
    ELSE 0
LineEnd(s, p) ==
    IF \E k \in (p + 1)..Len(s) : s[k] = "\n"
    THEN (CHOOSE k \in (p + 1)..Len(s) :
            s[k] = "\n" /\ \A j \in (p + 1)..(k - 1) : s[j] # "\n") - 1
    ELSE Len(s)

\* (?P<recipient>.*?) is lazy and stays on the line of p: the first q >= p
\* on that line at which the rest matches
RecipientEndBefore(s, p, e) ==
    IF \E q \in p..e : CardEndAt(s, q).ok
    THEN CHOOSE q \in p..e :
            CardEndAt(s, q).ok /\ \A r \in p..(q - 1) : ~CardEndAt(s, r).ok
    ELSE -1
RecipientEnd(s, p) == RecipientEndBefore(s, p, LineEnd(s, p))

\* The pattern from (?P<card_payment_datetime>...) on, matched at s[p:],
\* one operator per stretch of the pattern.  The classes of adjacent
\* repetitions are disjoint, so each run is maximal.
SkipRun(s, p, cls) == p + RunLen(s, p, cls)

\* the groups of a match: the datetime starts at p, the amount spans
\* p5..p5e, the PAN spans pp..pe, the recipient spans pe+1..q, and t is what
\* the pattern's end captures at q
CardGroups(s, p, p5, p5e, pp, pe, q, t) ==
    [ok |-> TRUE,
     card_payment_datetime |-> Slice(s, p, p + 19),
     card_payment_currency |-> Slice(s, p + 27, p + 30),
     card_payment_amount |-> Slice(s, p5, p5e),
     pan |-> Slice(s, pp, pe),
     recipient |-> Slice(s, pe + 1, q),
     card_expiration |-> t.card_expiration,
     type |-> t.type,
     card_data_entry_method |-> t.card_data_entry_method,
     card_payment_auth_method |-> t.card_payment_auth_method]

\* (?P<recipient>.*?) and the pattern's end, q being where the recipient ends
CardRecipientAt(s, p, p5, p5e, pp, pe, q) ==
    IF q >= 0 THEN CardGroups(s, p, p5, p5e, pp, pe, q, CardEndAt(s, q))
    ELSE [ok |-> FALSE]

\* (?P<pan>\d+) and the space after it, the digits spanning pp..pe
CardPanDigitsAt(s, p, p5, p5e, pp, pe) ==
    IF pe > pp /\ StartsWithAt(s, pe, <<" ">>)
    THEN CardRecipientAt(s, p, p5, p5e, pp, pe, RecipientEnd(s, pe + 1))
    ELSE [ok |-> FALSE]

\* "PAN " at p7
CardPanAt(s, p, p5, p5e, p7) ==
    IF StartsWithAt(s, p7, L_PAN)
    THEN CardPanDigitsAt(s, p, p5, p5e, p7 + 4, SkipRun(s, p7 + 4, Digits))
    ELSE [ok |-> FALSE]

\* \d+\s*\d*\s* from p6 on
CardTerminalDigitsAt(s, p, p5, p5e, p6, p6e) ==
    IF p6e > p6
    THEN CardPanAt(s, p, p5, p5e,
                   SkipRun(s, SkipRun(s, SkipRun(s, p6e, Whitespace), Digits),
                           Whitespace))
    ELSE [ok |-> FALSE]

\* \s+[A-Z]* from pw on, the whitespace ending at pu
CardTerminalAt(s, p, p5, p5e, pw, pu) ==
    IF pu > pw
    THEN CardTerminalDigitsAt(s, p, p5, p5e, SkipRun(s, pu, Upper),
                              SkipRun(s, SkipRun(s, pu, Upper), Digits))
    ELSE [ok |-> FALSE]

\* ,\d{2} EC at pk, the digits of the amount spanning pd..pk
CardAmountEndAt(s, p, p5, pd, pk) ==
    IF /\ pk > pd
       /\ StartsWithAt(s, pk, <<",">>)
       /\ AllIn(s, pk + 1, 2, Digits)
       /\ StartsWithAt(s, pk + 3, L_EC)
    THEN CardTerminalAt(s, p, p5, pk + 3, pk + 6, SkipRun(s, pk + 6, Whitespace))
    ELSE [ok |-> FALSE]

\* -?\d+ at pd
CardAmountDigitsAt(s, p, p5, pd) ==
    CardAmountEndAt(s, p, p5, pd, SkipRun(s, pd, Digits))

\* \s+ ending at p5, then (?P<card_payment_amount>-?\d+,\d{2} EC)
CardAmountAt(s, p, p5) ==
    IF p5 > p + 30
    THEN CardAmountDigitsAt(s, p, p5,
                            IF StartsWithAt(s, p5, <<"-">>) THEN p5 + 1 ELSE p5)
    ELSE [ok |-> FALSE]

CardTailAt(s, p) ==
    IF /\ DateTimeShapeAt(s, p)
       /\ StartsWithAt(s, p + 19, <<" ">>)
       /\ (StartsWithAt(s, p + 20, OFFLIN) \/ AllIn(s, p + 20, 6, Digits))
       /\ StartsWithAt(s, p + 26, <<" ">>)
       /\ AllIn(s, p + 27, 3, Upper)
    THEN CardAmountAt(s, p, SkipRun(s, p + 30, Whitespace))
    ELSE [ok |-> FALSE]

\* the match object of a match that starts at start and whose first group
\* ends at p, m being what the rest of the pattern captures there
CardMatch(value, start, p, m) ==
    [ok |-> TRUE,
     start |-> start,
     groupdict |-> <<
        Pair(K_card_payment_reference, Slice(value, start, p)),
        Pair(K_card_payment_datetime, m.card_payment_datetime),
        Pair(K_card_payment_currency, m.card_payment_currency),
        Pair(K_card_payment_amount, m.card_payment_amount),
        Pair(K_pan, m.pan),
        Pair(K_recipient, m.recipient),
        Pair(K_card_expiration, m.card_expiration),
        Pair(K_type, m.type),
        Pair(K_card_data_entry_method, m.card_data_entry_method),
        Pair(K_card_payment_auth_method, m.card_payment_auth_method)>>]

\* the greedy first group ends at p
CardMatchAt(value, start, p) == CardMatch(value, start, p, CardTailAt(value, p))

\* ... which is the last of the indices ps
CardMatchAtLast(value, start, ps) ==
    CardMatchAt(value, start, CHOOSE x \in ps : \A y \in ps : y <= x)

\* the match starts at start: the greedy (?P<card_payment_reference>.*) runs
\* to the end of that line and gives back down to the last index of ps on
\* the line
CardSearchLine(value, ps, start) ==
    CardMatchAtLast(value, start, {x \in ps : LineStart(value, x) = start})

\* ps being the indices at which the pattern after its first group
\* matches: re.search tries the start indices from 0 on, and the first one
\* that succeeds is where the line of the first index of ps begins
CardSearchIn(value, ps) ==
    IF ps = {} THEN [ok |-> FALSE]
    ELSE CardSearchLine(value, ps,
                        LineStart(value, CHOOSE x \in ps : \A y \in ps : x <= y))

\* re.search of the card-payment pattern
CardSearch(value) ==
    CardSearchIn(value, {p \in 0..Len(value) : CardTailAt(value, p).ok})

Suffixes == <<SEPA_UEBERWEISUNG, SEPA_LOHN_GEHALT, SEPA_BASISLASTSCHRIFT>>

\* the first suffix of Suffixes that value ends with, 0 if none
SuffixOf(value) ==
    IF EndsWith(value, Suffixes[1]) THEN 1
    ELSE IF EndsWith(value, Suffixes[2]) THEN 2
    ELSE IF EndsWith(value, Suffixes[3]) THEN 3
    ELSE 0

\* what parse_default_field returns when value ends with suffix
DefaultFieldOfSuffix(value, suffix) ==
    [value |-> <<>>,
     fields |-> <<Pair(K_recipient, Slice(value, 0, Len(value) - Len(suffix))),
                  Pair(K_type, suffix)>>]

\* what parse_default_field returns for the result m of the pattern search
DefaultFieldOfMatch(value, m) ==
    IF m.ok
    THEN [value |-> Slice(value, 0, m.start), fields |-> m.groupdict]
    ELSE [value |-> value, fields |-> <<>>]

DefaultFieldOf(value, k) ==
    IF k > 0 THEN DefaultFieldOfSuffix(value, Suffixes[k])
    ELSE DefaultFieldOfMatch(value, CardSearch(value))

\* (value, other_fields) of parse_default_field
parse_default_field(value) == DefaultFieldOf(value, SuffixOf(value))

-----------------------------------------------------------------------------
(* SpardaBankParser.parse_reference_fields (the reference tokenizer)       *)

\* The length of the match of \b([A-Z]{3,4}\+)<space> at index p, 0 if none.
\* [A-Z] is a word character, so \b holds at p iff the character before p
\* is none or no word character.
TagMatchLenNoSpace(s, p) ==
    IF ~(p = 0 \/ At(s, p - 1) \notin WordChars) THEN 0
    ELSE IF AllIn(s, p, 4, Upper) /\ StartsWithAt(s, p + 4, <<"+">>) THEN 5
    ELSE IF AllIn(s, p, 3, Upper) /\ StartsWithAt(s, p + 3, <<"+">>) THEN 4
    ELSE 0
TagMatchLen(s, p) ==
    IF ~(p = 0 \/ At(s, p - 1) \notin WordChars) THEN 0
    ELSE IF AllIn(s, p, 4, Upper) /\ StartsWithAt(s, p + 4, <<"+", " ">>) THEN 6
    ELSE IF AllIn(s, p, 3, Upper) /\ StartsWithAt(s, p + 3, <<"+", " ">>) THEN 5
    ELSE 0

\* re.finditer: the spans <<start, end>> of the non-overlapping matches,
\* leftmost first, searching on from index p
RECURSIVE FindIter(_, _)
FindIter(s, p) ==
    LET hits == {q \in p..(Len(s) - 1) : TagMatchLen(s, q) > 0}
    IN  IF hits = {} THEN <<>>
        ELSE LET q == CHOOSE a \in hits : \A b \in hits : a <= b
             IN <<<<q, q + TagMatchLen(s, q)>>>> \o FindIter(s, q + TagMatchLen(s, q))

\* what the default segment yields: the sub-parser's fields first
YieldDefault(field, r) == r.fields \o <<Pair(field, r.value)>>

\* what one segment yields
YieldSegment(field, value) ==
    IF field = K_default THEN YieldDefault(field, parse_default_field(value))
    ELSE <<Pair(field, value)>>

\* the loop over the matches; k is the next match, start and field as in
\* the source; the segment after the last match is yielded after the loop
RECURSIVE RefLoop(_, _, _, _, _)
RefLoop(reference, ms, k, start, field) ==
    YieldSegment(field, Strip(Slice(reference, start,
                                    IF k > Len(ms) THEN Len(reference)
                                    ELSE ms[k][1])))
    \o (IF k > Len(ms) THEN <<>>
        ELSE RefLoop(reference, ms, k + 1, ms[k][2],
                     Slice(reference, ms[k][1], ms[k][2] - 1)))

\* the pairs parse_reference_fields yields, in order
parse_reference_fields(reference) ==
    RefLoop(reference, FindIter(reference, 0), 1, 0, K_default)

\* dict(pairs) read by key: a later pair with the same key wins
HasKey(pairs, k) == \E j \in 1..Len(pairs) : pairs[j][1] = k
DictGet(pairs, k) ==
    LET j == CHOOSE x \in 1..Len(pairs) :
                pairs[x][1] = k /\ \A y \in (x + 1)..Len(pairs) : pairs[y][1] # k
    IN pairs[j][2]
\* fields.get(k) where only its truth value and, if true, its value are
\* used: None and "" are both false, and are both returned as <<>>
Get(pairs, k) == IF HasKey(pairs, k) THEN DictGet(pairs, k) ELSE <<>>

-----------------------------------------------------------------------------
(* Dates, decimals and the identifiers of the banking library              *)

\* Python None where the other values are model strings
PyNone == "<None>"

\* Python None where the other values are Python strs: a sequence that no
\* str is
NoneStr == <<PyNone>>

\* Optional values: None is <<>>, a value x is <<x>>
None == <<>>
Some(x) == <<x>>

\* one numeric directive of strptime (%d, %m, %H, %M, %S) at s[p:]: its
\* two-character alternatives are tried first, then the one-character one.
\* lo2..hi2 is what two digits may spell, lo1..9 what one digit may.
StrptimeField(s, p, lo2, hi2, lo1) ==
    IF AllIn(s, p, 2, Digits)
       /\ DigitsVal(Slice(s, p, p + 2)) >= lo2
       /\ DigitsVal(Slice(s, p, p + 2)) <= hi2
    THEN [ok |-> TRUE, len |-> 2, val |-> DigitsVal(Slice(s, p, p + 2))]
    ELSE IF AllIn(s, p, 1, Digits) /\ DigitVal(At(s, p)) >= lo1
    THEN [ok |-> TRUE, len |-> 1, val |-> DigitVal(At(s, p))]
    ELSE [ok |-> FALSE, len |-> 0, val |-> 0]

\* %d at s[p:]: 3[0-1]|[1-2]\d|0[1-9]|[1-9]| [1-9], the last alternative
\* being a space and one digit
StrptimeDayField(s, p) ==
    IF /\ StartsWithAt(s, p, <<" ">>)
       /\ AllIn(s, p + 1, 1, Digits)
       /\ At(s, p + 1) # "0"
    THEN [ok |-> TRUE, len |-> 2, val |-> DigitVal(At(s, p + 1))]
    ELSE StrptimeField(s, p, 1, 31, 1)

IsLeap(y) == (y % 4 = 0 /\ y % 100 # 0) \/ y % 400 = 0
DaysInMonth(y, m) ==
    IF m \in {4, 6, 9, 11} THEN 30
    ELSE IF m = 2 THEN (IF IsLeap(y) THEN 29 ELSE 28)
    ELSE 31

\* datetime.datetime(y, m, d, H, M, S) accepts these and raises ValueError
\* for the rest
ValidDateTime(y, m, d, H, M, S) ==
    /\ y >= 1 /\ m >= 1 /\ m <= 12 /\ d >= 1 /\ d <= DaysInMonth(y, m)
    /\ H <= 23 /\ M <= 59 /\ S <= 59

NaiveDateTime(y, m, d, H, M, S) ==
    [y |-> y, m |-> m, d |-> d, H |-> H, M |-> M, S |-> S, tz |-> "naive"]

\* datetime.datetime.strptime(s, "%d.%m.%Y"), and with withTime
\* strptime(s, "%d.%m.%Y %H.%M.%S"): [ok, dt], ok = FALSE for ValueError.
\* One operator per directive of the format, left to right; a directive's
\* operator is given the field before it, already matched.
\* strptime of None raises TypeError.
StrptimeMake(y, m, d, H, M, S) ==
    IF ValidDateTime(y, m, d, H, M, S)
    THEN [ok |-> TRUE, dt |-> NaiveDateTime(y, m, d, H, M, S)]
    ELSE [ok |-> FALSE]

\* %S at pS, then the end of the string
StrptimeSecond(s, y, m, d, H, M, pS, S) ==
    IF S.ok /\ Len(s) = pS + S.len THEN StrptimeMake(y, m, d, H, M, S.val)
    ELSE [ok |-> FALSE]

\* ".", then %S
StrptimeMinute(s, y, m, d, H, pM, M) ==
    IF M.ok /\ StartsWithAt(s, pM + M.len, <<".">>)
    THEN StrptimeSecond(s, y, m, d, H, M.val, pM + M.len + 1,
                        StrptimeField(s, pM + M.len + 1, 0, 61, 0))
    ELSE [ok |-> FALSE]

\* ".", then %M
StrptimeHour(s, y, m, d, pH, H) ==
    IF H.ok /\ StartsWithAt(s, pH + H.len, <<".">>)
    THEN StrptimeMinute(s, y, m, d, H.val, pH + H.len + 1,
                        StrptimeField(s, pH + H.len + 1, 0, 59, 0))
    ELSE [ok |-> FALSE]

\* the format's space is \s+: the whitespace spans pe..pH; then %H
StrptimeSpace(s, y, m, d, pe, pH) ==
    IF pH > pe
    THEN StrptimeHour(s, y, m, d, pH, StrptimeField(s, pH, 0, 23, 0))
    ELSE [ok |-> FALSE]

\* the end of the date at pe: the end of the string, or the time
StrptimeDateEnd(s, withTime, y, m, d, pe) ==
    IF withTime THEN StrptimeSpace(s, y, m, d, pe, pe + RunLen(s, pe, Whitespace))
    ELSE IF Len(s) = pe THEN StrptimeMake(y, m, d, 0, 0, 0)
    ELSE [ok |-> FALSE]

\* ".", then %Y at py
StrptimeYear(s, withTime, m, d, py) ==
    IF StartsWithAt(s, py - 1, <<".">>) /\ AllIn(s, py, 4, Digits)
    THEN StrptimeDateEnd(s, withTime, DigitsVal(Slice(s, py, py + 4)), m, d, py + 4)
    ELSE [ok |-> FALSE]

\* %m at pm
StrptimeMonth(s, withTime, d, pm, m) ==
    IF m.ok THEN StrptimeYear(s, withTime, m.val, d, pm + m.len + 1)
    ELSE [ok |-> FALSE]

\* %d at 0, then "."
StrptimeDay(s, withTime, d) ==
    IF d.ok /\ StartsWithAt(s, d.len, <<".">>)
    THEN StrptimeMonth(s, withTime, d.val, d.len + 1,
                       StrptimeField(s, d.len + 1, 1, 12, 1))
    ELSE [ok |-> FALSE]

Strptime(s, withTime) ==
    IF s = NoneStr THEN [ok |-> FALSE]
    ELSE StrptimeDay(s, withTime, StrptimeDayField(s, 0))

\* .replace(tzinfo=TIMEZONE) of what strptime returned
ReplaceTzinfo(r) ==
    IF r.ok THEN [ok |-> TRUE, dt |-> [r.dt EXCEPT !.tz = "Europe/Berlin"]]
    ELSE [ok |-> FALSE]

\* SpardaBankParser.parse_datetime: strptime with self.date_format, then
\* .replace(tzinfo=TIMEZONE)
parse_datetime(value) == ReplaceTzinfo(Strptime(value, FALSE))

\* str(n) for n >= 0
RECURSIVE IntToChars(_)
IntToChars(n) ==
    LET c == <<"0","1","2","3","4","5","6","7","8","9">>[(n % 10) + 1]
    IN  IF n < 10 THEN <<c>> ELSE IntToChars(n \div 10) \o <<c>>

\* n as at least w digits, zero-padded on the left
ZeroPad(n, w) ==
    LET s == IntToChars(n)
    IN  [k \in 1..(Max(w - Len(s), 0)) |-> "0"] \o s

\* value_date.strftime("%Y%m%d"): the C library's strftime, which (glibc)
\* does not pad %Y, so a year below 1000 has fewer than four digits
StrftimeYmd(dt) == IntToChars(dt.y) \o ZeroPad(dt.m, 2) \o ZeroPad(dt.d, 2)

\* decimal.Decimal(text).  The text is stripped of surrounding whitespace,
\* then of every underscore, and read without regard to case as
\*   [sign] (digits [. digits] | . digits) [e [sign] digits]
\*   | [sign] inf[inity] | [sign] [s]nan [digits];
\* anything else raises decimal.InvalidOperation (ok = FALSE).  A Decimal is
\* [kind, neg, coef, exp]: kind "finite" with the value coef * 10^exp, or
\* "Infinity", or "NaN" / "sNaN" with the payload coef (0: none).
AsciiLower == <<"a","b","c","d","e","f","g","h","i","j","k","l","m",
                "n","o","p","q","r","s","t","u","v","w","x","y","z">>
AsciiUpper == <<"A","B","C","D","E","F","G","H","I","J","K","L","M",
                "N","O","P","Q","R","S","T","U","V","W","X","Y","Z">>

\* s is lit (written in lower case) without regard to case
EqualsNoCase(s, lit) ==
    /\ Len(s) = Len(lit)
    /\ \A k \in 1..Len(s) :
          \/ s[k] = lit[k]
          \/ \E j \in 1..26 : AsciiLower[j] = lit[k] /\ AsciiUpper[j] = s[k]

Decimal(kind, neg, coef, exp) ==
    [ok |-> TRUE, d |-> [kind |-> kind, neg |-> neg, coef |-> coef, exp |-> exp]]

\* the exponent after the "e": [sign] digits
DecimalExponent(x) ==
    IF x # <<>> /\ x[1] \in {"-", "+"}
    THEN IF Len(x) >= 2 /\ AllIn(x, 1, Len(x) - 1, Digits)
         THEN [ok |-> TRUE,
               val |-> IF x[1] = "-" THEN 0 - DigitsVal(Tail(x)) ELSE DigitsVal(Tail(x))]
         ELSE [ok |-> FALSE, val |-> 0]
    ELSE IF Len(x) >= 1 /\ AllIn(x, 0, Len(x), Digits)
         THEN [ok |-> TRUE, val |-> DigitsVal(x)]
         ELSE [ok |-> FALSE, val |-> 0]

\* 10^n
RECURSIVE Pow10(_)
Pow10(n) == IF n = 0 THEN 1 ELSE 10 * Pow10(n - 1)

\* decimal.MAX_EMAX = 999999999999999999 and
\* decimal.MIN_ETINY = -1999999999999999997
MAX_EMAX == Pow10(18) - 1
MIN_ETINY == 0 - (2 * Pow10(18) - 3)

\* The constructor converts exactly and raises InvalidOperation for what
\* it cannot hold: a number whose adjusted exponent (the exponent of its
\* first digit, leading zeros apart; of a zero, its exponent) is above
\* MAX_EMAX, or whose exponent is below MIN_ETINY.  In each line the
\* first test implies the second and settles the exponents of fewer than
\* ten digits.
DecimalInRange(coef, exp) ==
    /\ \/ exp + Len(IntToChars(coef)) - 1 < Pow10(9)
       \/ exp + Len(IntToChars(coef)) - 1 <= MAX_EMAX
    /\ \/ exp > 0 - Pow10(9)
       \/ exp >= MIN_ETINY

\* ip and fp are the digits before and after the point, e the exponent
DecimalOfParts(neg, ip, fp, e) ==
    IF /\ e.ok
       /\ Len(ip) + Len(fp) >= 1
       /\ \A k \in 1..Len(ip) : ip[k] \in Digits
       /\ \A k \in 1..Len(fp) : fp[k] \in Digits
       /\ DecimalInRange(DigitsVal(ip \o fp), e.val - Len(fp))
    THEN Decimal("finite", neg, DigitsVal(ip \o fp), e.val - Len(fp))
    ELSE [ok |-> FALSE]

\* body is the mantissa, dot the index of its first "." (0: none)
DecimalOfBody(neg, body, dot, e) ==
    IF dot = 0 THEN DecimalOfParts(neg, body, <<>>, e)
    ELSE DecimalOfParts(neg, SubSeq(body, 1, dot - 1),
                        SubSeq(body, dot + 1, Len(body)), e)

FirstIndexOf(s, c) ==
    IF \E k \in 1..Len(s) : s[k] = c
    THEN CHOOSE k \in 1..Len(s) : s[k] = c /\ \A j \in 1..(k - 1) : s[j] # c
    ELSE 0

\* body is the number after the sign, ei the index of its first "e" or "E"
\* (0: none)
DecimalOfNumber(neg, body, ei) ==
    IF ei = 0
    THEN DecimalOfBody(neg, body, FirstIndexOf(body, "."), [ok |-> TRUE, val |-> 0])
    ELSE DecimalOfBody(neg, SubSeq(body, 1, ei - 1),
                       FirstIndexOf(SubSeq(body, 1, ei - 1), "."),
                       DecimalExponent(SubSeq(body, ei + 1, Len(body))))

\* body is the text after the sign
DecimalOfUnsigned(neg, body) ==
    IF EqualsNoCase(body, <<"i","n","f">>)
       \/ EqualsNoCase(body, <<"i","n","f","i","n","i","t","y">>)
    THEN Decimal("Infinity", neg, 0, 0)
    ELSE IF /\ EqualsNoCase(Slice(body, 0, 3), <<"n","a","n">>)
            /\ AllIn(body, 3, Len(body) - 3, Digits)
    THEN Decimal("NaN", neg, DigitsVal(Slice(body, 3, Len(body))), 0)
    ELSE IF /\ EqualsNoCase(Slice(body, 0, 4), <<"s","n","a","n">>)
            /\ AllIn(body, 4, Len(body) - 4, Digits)
    THEN Decimal("sNaN", neg, DigitsVal(Slice(body, 4, Len(body))), 0)
    ELSE DecimalOfNumber(neg, body,
                         FirstIndexOf(ReplaceChar(body, "E", "e"), "e"))

DecimalOfStripped(s) ==
    IF s # <<>> /\ s[1] \in {"-", "+"}
    THEN DecimalOfUnsigned(s[1] = "-", Tail(s))
    ELSE DecimalOfUnsigned(FALSE, s)

DecimalOf(text) == DecimalOfStripped(RemoveChar(Strip(text), "_"))

\* SpardaBankParser.parse_decimal; None has no replace (AttributeError)
parse_decimal(value) ==
    IF value = NoneStr THEN [ok |-> FALSE]
    ELSE DecimalOf(ReplaceChar(RemoveChar(value, "."), ",", "."))

\* str(d) (Decimal.__str__) of a finite Decimal with the digits digits:
\* leftdigits is where the point stands relative to the digits' start,
\* dotplace the number of digits put before the point
DecimalStrPlaced(neg, digits, leftdigits, dotplace) ==
    (IF neg THEN <<"-">> ELSE <<>>)
    \o (IF dotplace <= 0 THEN <<"0", ".">> \o [k \in 1..(0 - dotplace) |-> "0"] \o digits
        ELSE IF dotplace >= Len(digits)
        THEN digits \o [k \in 1..(dotplace - Len(digits)) |-> "0"]
        ELSE SubSeq(digits, 1, dotplace) \o <<".">>
             \o SubSeq(digits, dotplace + 1, Len(digits)))
    \o (IF leftdigits = dotplace THEN <<>>
        ELSE IF leftdigits > dotplace
        THEN <<"E", "+">> \o IntToChars(leftdigits - dotplace)
        ELSE <<"E", "-">> \o IntToChars(dotplace - leftdigits))

\* the plain form if the exponent is at most 0 and the number has more than
\* -6 digits before the point, else the scientific form
DecimalStrFinite(neg, digits, exp) ==
    DecimalStrPlaced(neg, digits, exp + Len(digits),
                     IF exp <= 0 /\ exp + Len(digits) > -6
                     THEN exp + Len(digits) ELSE 1)

\* str(d), which is what f"{amount}" prints
DecimalStr(d) ==
    IF d.kind = "finite" THEN DecimalStrFinite(d.neg, IntToChars(d.coef), d.exp)
    ELSE (IF d.neg THEN <<"-">> ELSE <<>>)
         \o (IF d.kind = "Infinity" THEN <<"I","n","f","i","n","i","t","y">>
             ELSE IF d.kind = "NaN" THEN <<"N","a","N">>
             ELSE <<"s","N","a","N">>)
         \o (IF d.kind # "Infinity" /\ d.coef > 0 THEN IntToChars(d.coef) ELSE <<>>)

\* amount > 0.0: [ok, val]; the comparison with a NaN raises
\* decimal.InvalidOperation (ok = FALSE)
DecimalPositive(d) ==
    IF d.kind \in {"NaN", "sNaN"} THEN [ok |-> FALSE, val |-> FALSE]
    ELSE [ok |-> TRUE, val |-> ~d.neg /\ (d.kind = "Infinity" \/ d.coef > 0)]

\* schwifty: the value of a character in the ISO 7064 mod-97 check
AlnumVal(c) ==
    IF c \in Digits THEN DigitVal(c)
    ELSE LET abc == <<"A","B","C","D","E","F","G","H","I","J","K","L","M",
                      "N","O","P","Q","R","S","T","U","V","W","X","Y","Z">>
         IN 9 + CHOOSE k \in 1..26 : abc[k] = c

RECURSIVE Mod97(_, _)
Mod97(s, r) ==
    IF s = <<>> THEN r
    ELSE Mod97(Tail(s), IF Head(s) \in Digits
                        THEN (r * 10 + AlnumVal(Head(s))) % 97
                        ELSE (r * 100 + AlnumVal(Head(s))) % 97)

\* schwifty.IBAN(value) constructs or raises a SchwiftyException.  The
\* model's registry knows the country DE only: 22 characters, 18 digits
\* after the check digits.
IbanValid(v) ==
    /\ Len(v) = 22
    /\ StartsWithAt(v, 0, <<"D", "E">>)
    /\ AllIn(v, 2, 20, Digits)
    /\ Mod97(Slice(v, 4, 22) \o Slice(v, 0, 4), 0) = 1

\* the bank registry of the model: bank code -> BIC
BankRegistry ==
    {<< <<"3","7","0","4","0","0","4","4">>,
        <<"C","O","B","A","D","E","F","F","X","X","X">> >>}

\* iban.bic: the registry's BIC for the IBAN's bank code, or None
IbanBic(v) ==
    LET hits == {e \in BankRegistry : e[1] = Slice(v, 4, 12)}
    IN  IF hits = {} THEN None ELSE Some((CHOOSE e \in hits : TRUE)[2])

\* schwifty.BIC(value) constructs or raises: 8 or 11 characters, four
\* letters, a two-letter country code, then letters or digits
BicValid(v) ==
    /\ Len(v) \in {8, 11}
    /\ AllIn(v, 0, 6, Upper)
    /\ AllIn(v, 6, Len(v) - 6, Upper \cup Digits)

\* bic.branch_code
BranchCode(bic) == Slice(bic, 8, 11)

-----------------------------------------------------------------------------
(* Inputs: the rows a file may hold                                         *)

\* header labels and column names
L_Kontoinhaber == <<"K","o","n","t","o","i","n","h","a","b","e","r",":">>
L_Kundennummer == <<"K","u","n","d","e","n","n","u","m","m","e","r",":">>
L_Suchoptionen == <<"W","e","i","t","e","r","e"," ","g","e","w",LUML_A,"h","l","t","e"," ","S","u","c","h","o","p","t","i","o","n","e","n",":">>
L_keine == <<"k","e","i","n","e">>
COL_Umsaetze_ab == <<"U","m","s",LUML_A,"t","z","e"," ","a","b">>
COL_Enddatum == <<"E","n","d","d","a","t","u","m">>
COL_Kontonummer == <<"K","o","n","t","o","n","u","m","m","e","r">>
COL_Saldo == <<"S","a","l","d","o">>
COL_Waehrung == <<"W",LUML_A,"h","r","u","n","g">>
COL_Buchungstag == <<"B","u","c","h","u","n","g","s","t","a","g">>
COL_Wertstellungstag == <<"W","e","r","t","s","t","e","l","l","u","n","g","s","t","a","g">>
COL_Verwendungszweck == <<"V","e","r","w","e","n","d","u","n","g","s","z","w","e","c","k">>
COL_Umsatz == <<"U","m","s","a","t","z">>

\* texts of the model's files
TitleGiro == <<"U","m","s",LUML_A,"t","z","e"," ","S","p","a","r","d","a","G","i","r","o">>  \* "Ums[LUML_A]tze SpardaGiro"
TitleTagesgeld == <<"S","p","a","r","d","a","T","a","g","e","s","g","e","l","d"," ","O","n","l","i","n","e">>  \* "SpardaTagesgeld Online"
TitleOther == <<"U","m","s","a","t","z","a","n","z","e","i","g","e">>  \* "Umsatzanzeige"
TxtName == <<"M","a","x"," ","M","u","s","t","e","r","m","a","n","n">>  \* "Max Mustermann"
TxtNumber == <<"1","2","3","4","5","6","7">>  \* "1234567"
TxtAlle == <<"a","l","l","e">>  \* "alle"
TxtWrongLabel == <<"K","o","n","t","o","i","n","h","a","b","e","r">>  \* "Kontoinhaber"
Day12 == <<"1","2",".","0","2",".","2","0","2","4">>  \* "12.02.2024"
Day13 == <<"1","3",".","0","2",".","2","0","2","4">>  \* "13.02.2024"
Day14 == <<"1","4",".","0","2",".","2","0","2","4">>  \* "14.02.2024"
DayBad == <<"3","1",".","0","2",".","2","0","2","4">>  \* "31.02.2024"
TxtBalance == <<"1",".","0","0","0",",","0","0">>  \* "1.000,00"
EUR == <<"E","U","R">>  \* "EUR"
USD == <<"U","S","D">>  \* "USD"
Amt5 == <<"5",",","0","0">>  \* "5,00"
AmtMinus5 == <<"-","5",",","0","0">>  \* "-5,00"
Amt0 == <<"0",",","0","0">>  \* "0,00"
Amt5Short == <<"5",",","0">>  \* "5,0"
AmtThousand == <<"1",".","2","3","4",",","5","6">>  \* "1.234,56"
AmtThousandNoDot == <<"1","2","3","4",",","5","6">>  \* "1234,56"
AmtBad == <<"a","b","c">>  \* "abc"
DaySpaced999 == <<" ","2",".","0","2",".","0","9","9","9">>  \* " 2.02.0999"
AmtExp == <<"5","e","-","7">>  \* "5e-7"
AmtInf == <<"-","i","n","f">>  \* "-inf"
CurNone == <<"N","o","n","e">>  \* "None"
RefPlainAmt == <<"M","i","e","t","e"," ","5",".","0","0">>  \* "Miete 5.00"
CurWithSpace == <<"5",".","0","0"," ","E","U","R">>  \* "5.00 EUR"

\* purpose texts (column Verwendungszweck)
\* "SVWZ+ Rent payment EREF+ X123" (29 characters)
RefRentSpaced == <<"S","V","W","Z","+"," ","R","e","n","t"," ","p","a","y","m","e","n","t"," ","E","R","E","F","+"," ","X","1","2","3">>
\* "SVWZ+ Rent payment EREF+X123" (28 characters)
RefRentUnspaced == <<"S","V","W","Z","+"," ","R","e","n","t"," ","p","a","y","m","e","n","t"," ","E","R","E","F","+","X","1","2","3">>
\* "Miete" (5 characters)
RefPlain == <<"M","i","e","t","e">>
\* "  Miete Februar " (16 characters)
RefPlainPadded == <<" "," ","M","i","e","t","e"," ","F","e","b","r","u","a","r"," ">>
\* "Max Mustermann SEPA-[UUML]BERWEISUNG IBAN+ DE89370400440532013000 BIC+ COBADEFFXXX SVWZ+ Miete EREF+ E1" (98 characters)
RefTransfer == <<"M","a","x"," ","M","u","s","t","e","r","m","a","n","n"," ","S","E","P","A","-",UUML,"B","E","R","W","E","I","S","U","N","G"," ","I","B","A","N","+"," ","D","E","8","9","3","7","0","4","0","0","4","4","0","5","3","2","0","1","3","0","0","0"," ","B","I","C","+"," ","C","O","B","A","D","E","F","F","X","X","X"," ","S","V","W","Z","+"," ","M","i","e","t","e"," ","E","R","E","F","+"," ","E","1">>
\* "Max Mustermann SEPA-[UUML]BERWEISUNG IBAN+ DE88370400440532013000 BIC+ COBADEFFXXX SVWZ+ Miete EREF+ E1" (98 characters)
RefTransferBadIban == <<"M","a","x"," ","M","u","s","t","e","r","m","a","n","n"," ","S","E","P","A","-",UUML,"B","E","R","W","E","I","S","U","N","G"," ","I","B","A","N","+"," ","D","E","8","8","3","7","0","4","0","0","4","4","0","5","3","2","0","1","3","0","0","0"," ","B","I","C","+"," ","C","O","B","A","D","E","F","F","X","X","X"," ","S","V","W","Z","+"," ","M","i","e","t","e"," ","E","R","E","F","+"," ","E","1">>
\* "Max Mustermann SEPA-[UUML]BERWEISUNG BIC+ COBADEFFXXX SVWZ+ Miete EREF+ E1" (69 characters)
RefTransferNoIban == <<"M","a","x"," ","M","u","s","t","e","r","m","a","n","n"," ","S","E","P","A","-",UUML,"B","E","R","W","E","I","S","U","N","G"," ","B","I","C","+"," ","C","O","B","A","D","E","F","F","X","X","X"," ","S","V","W","Z","+"," ","M","i","e","t","e"," ","E","R","E","F","+"," ","E","1">>
\* "Max Mustermann SEPA-[UUML]BERWEISUNG IBAN+ DE89370400440532013000 BIC+ COBA SVWZ+ Miete EREF+ E1" (91 characters)
RefTransferBadBic == <<"M","a","x"," ","M","u","s","t","e","r","m","a","n","n"," ","S","E","P","A","-",UUML,"B","E","R","W","E","I","S","U","N","G"," ","I","B","A","N","+"," ","D","E","8","9","3","7","0","4","0","0","4","4","0","5","3","2","0","1","3","0","0","0"," ","B","I","C","+"," ","C","O","B","A"," ","S","V","W","Z","+"," ","M","i","e","t","e"," ","E","R","E","F","+"," ","E","1">>
\* "Max Mustermann SEPA-[UUML]BERWEISUNG IBAN+ DE89370400440532013000 SVWZ+ Miete EREF+ E1" (81 characters)
RefTransferNoBic == <<"M","a","x"," ","M","u","s","t","e","r","m","a","n","n"," ","S","E","P","A","-",UUML,"B","E","R","W","E","I","S","U","N","G"," ","I","B","A","N","+"," ","D","E","8","9","3","7","0","4","0","0","4","4","0","5","3","2","0","1","3","0","0","0"," ","S","V","W","Z","+"," ","M","i","e","t","e"," ","E","R","E","F","+"," ","E","1">>
\* "Max Mustermann SEPA-[UUML]BERWEISUNG IBAN+ DE17123456780000000001 BIC+ COBA SVWZ+ Miete EREF+ E1" (91 characters)
RefTransferUnknownBank == <<"M","a","x"," ","M","u","s","t","e","r","m","a","n","n"," ","S","E","P","A","-",UUML,"B","E","R","W","E","I","S","U","N","G"," ","I","B","A","N","+"," ","D","E","1","7","1","2","3","4","5","6","7","8","0","0","0","0","0","0","0","0","0","1"," ","B","I","C","+"," ","C","O","B","A"," ","S","V","W","Z","+"," ","M","i","e","t","e"," ","E","R","E","F","+"," ","E","1">>
\* "Max Mustermann SEPA-[UUML]BERWEISUNG IBAN+ DE17123456780000000001 BIC+ GENODEF1 SVWZ+ Miete EREF+ E1" (95 characters)
RefTransferShortBic == <<"M","a","x"," ","M","u","s","t","e","r","m","a","n","n"," ","S","E","P","A","-",UUML,"B","E","R","W","E","I","S","U","N","G"," ","I","B","A","N","+"," ","D","E","1","7","1","2","3","4","5","6","7","8","0","0","0","0","0","0","0","0","0","1"," ","B","I","C","+"," ","G","E","N","O","D","E","F","1"," ","S","V","W","Z","+"," ","M","i","e","t","e"," ","E","R","E","F","+"," ","E","1">>
\* "Firma GmbH SEPA-LOHN/GEHALT" (27 characters)
RefSalary == <<"F","i","r","m","a"," ","G","m","b","H"," ","S","E","P","A","-","L","O","H","N","/","G","E","H","A","L","T">>
\* "Strom AG SEPA-BASISLASTSCHRIFT SVWZ+ Abschlag" (45 characters)
RefDebit == <<"S","t","r","o","m"," ","A","G"," ","S","E","P","A","-","B","A","S","I","S","L","A","S","T","S","C","H","R","I","F","T"," ","S","V","W","Z","+"," ","A","b","s","c","h","l","a","g">>
\* "REWE SAGT DANKE 12.02.2024 10.11.12 123456 EUR 1,00 EC 1 PAN 1 Laden123 12/2024 GIROCARD ABCD/EFGH/" (99 characters)
RefCard == <<"R","E","W","E"," ","S","A","G","T"," ","D","A","N","K","E"," ","1","2",".","0","2",".","2","0","2","4"," ","1","0",".","1","1",".","1","2"," ","1","2","3","4","5","6"," ","E","U","R"," ","1",",","0","0"," ","E","C"," ","1"," ","P","A","N"," ","1"," ","L","a","d","e","n","1","2","3"," ","1","2","/","2","0","2","4"," ","G","I","R","O","C","A","R","D"," ","A","B","C","D","/","E","F","G","H","/">>
\* "REWE SAGT DANKE 31.02.2024 10.11.12 123456 EUR 1,00 EC 1 PAN 1 Laden123 12/2024 GIROCARD ABCD/EFGH/" (99 characters)
RefCardBadDate == <<"R","E","W","E"," ","S","A","G","T"," ","D","A","N","K","E"," ","3","1",".","0","2",".","2","0","2","4"," ","1","0",".","1","1",".","1","2"," ","1","2","3","4","5","6"," ","E","U","R"," ","1",",","0","0"," ","E","C"," ","1"," ","P","A","N"," ","1"," ","L","a","d","e","n","1","2","3"," ","1","2","/","2","0","2","4"," ","G","I","R","O","C","A","R","D"," ","A","B","C","D","/","E","F","G","H","/">>
\* "12.02.2024 10.11.12 123456 EUR 1,00 EC 1 PAN 1 Laden123 12/2024 GIROCARD ABCD/EFGH/" (83 characters)
RefCardNoRef == <<"1","2",".","0","2",".","2","0","2","4"," ","1","0",".","1","1",".","1","2"," ","1","2","3","4","5","6"," ","E","U","R"," ","1",",","0","0"," ","E","C"," ","1"," ","P","A","N"," ","1"," ","L","a","d","e","n","1","2","3"," ","1","2","/","2","0","2","4"," ","G","I","R","O","C","A","R","D"," ","A","B","C","D","/","E","F","G","H","/">>
\* "REWE SAGT DANKE 12.02.2024 10.11.12 123456 EUR 1,00 EC 1 PAN 1 Laden123 12/2024 GIROCARD ABCD/EFGH/ SVWZ+ Bar" (109 characters)
RefCardAndRef == <<"R","E","W","E"," ","S","A","G","T"," ","D","A","N","K","E"," ","1","2",".","0","2",".","2","0","2","4"," ","1","0",".","1","1",".","1","2"," ","1","2","3","4","5","6"," ","E","U","R"," ","1",",","0","0"," ","E","C"," ","1"," ","P","A","N"," ","1"," ","L","a","d","e","n","1","2","3"," ","1","2","/","2","0","2","4"," ","G","I","R","O","C","A","R","D"," ","A","B","C","D","/","E","F","G","H","/"," ","S","V","W","Z","+"," ","B","a","r">>
\* "TANKE 11.02.2024 23.59.59 OFFLIN EUR  -12,50 EC  AB12 34 PAN 5678 Shop 1 999 01/2025 nicht GIRO CHIP/PINX//77" (109 characters)
RefCardNicht == <<"T","A","N","K","E"," ","1","1",".","0","2",".","2","0","2","4"," ","2","3",".","5","9",".","5","9"," ","O","F","F","L","I","N"," ","E","U","R"," "," ","-","1","2",",","5","0"," ","E","C"," "," ","A","B","1","2"," ","3","4"," ","P","A","N"," ","5","6","7","8"," ","S","h","o","p"," ","1"," ","9","9","9"," ","0","1","/","2","0","2","5"," ","n","i","c","h","t"," ","G","I","R","O"," ","C","H","I","P","/","P","I","N","X","/","/","7","7">>
\* "Max Mustermann SEPA-[UUML]BERWEISUNG SVWZ+ Miete fuer Februar EREF+ E1" (65 characters)
RefWrapped == <<"M","a","x"," ","M","u","s","t","e","r","m","a","n","n"," ","S","E","P","A","-",UUML,"B","E","R","W","E","I","S","U","N","G"," ","S","V","W","Z","+"," ","M","i","e","t","e"," ","f","u","e","r"," ","F","e","b","r","u","a","r"," ","E","R","E","F","+"," ","E","1">>
\* "Max Mustermann SEPA-[UUML]BERWEISUNG SVWZ+ Miete fuer Febr uar EREF+ E1" (66 characters)
RefWrappedSpace == <<"M","a","x"," ","M","u","s","t","e","r","m","a","n","n"," ","S","E","P","A","-",UUML,"B","E","R","W","E","I","S","U","N","G"," ","S","V","W","Z","+"," ","M","i","e","t","e"," ","f","u","e","r"," ","F","e","b","r"," ","u","a","r"," ","E","R","E","F","+"," ","E","1">>
\* "Miete\n" and the card payment text of RefCardNoRef (89 characters)
RefCardAfterNewline == <<"M","i","e","t","e","\n","1","2",".","0","2",".","2","0","2","4"," ","1","0",".","1","1",".","1","2"," ","1","2","3","4","5","6"," ","E","U","R"," ","1",",","0","0"," ","E","C"," ","1"," ","P","A","N"," ","1"," ","L","a","d","e","n","1","2","3"," ","1","2","/","2","0","2","4"," ","G","I","R","O","C","A","R","D"," ","A","B","C","D","/","E","F","G","H","/">>
\* "\tMiete SVWZ+ \tBar\n" (18 characters)
RefTabbed == <<"\t","M","i","e","t","e"," ","S","V","W","Z","+"," ","\t","B","a","r","\n">>
\* "ßSVWZ+ Miete" (12 characters)
RefEszettTag == <<"ß","S","V","W","Z","+"," ","M","i","e","t","e">>

Refs ==
    {RefCardAfterNewline, RefTabbed, RefEszettTag, RefRentSpaced, RefRentUnspaced, RefPlain, RefPlainPadded, RefTransfer, RefTransferBadIban, RefTransferNoIban, RefTransferBadBic, RefTransferNoBic, RefTransferUnknownBank, RefTransferShortBic, RefSalary, RefDebit, RefCard, RefCardBadDate, RefCardNoRef, RefCardAndRef, RefCardNicht, RefWrapped, RefWrappedSpace}

-----------------------------------------------------------------------------
(* find_account_type, find_transaction_type                                *)

\* the first needle in haystack decides; PyNone if there is none
find_account_type(haystack) ==
    IF Contains(SpardaGiro, haystack) THEN "CHECKING"
    ELSE IF Contains(SpardaYoung, haystack) THEN "CHECKING"
    ELSE IF Contains(SpardaTagesgeld, haystack) THEN "SAVINGS"
    ELSE PyNone

\* find_account_type(title) or AccountType.CHECKING
AccountTypeOfTitle(t) ==
    IF find_account_type(t) # PyNone THEN find_account_type(t) ELSE "CHECKING"

\* the first needle in haystack decides; falls off the end (None) otherwise
find_transaction_type(haystack) ==
    IF Contains(SEPA_UEBERWEISUNG, haystack) THEN "XFER"
    ELSE IF Contains(SEPA_LOHN_GEHALT, haystack) THEN "XFER"
    ELSE IF Contains(SEPA_BASISLASTSCHRIFT, haystack) THEN "DIRECTDEBIT"
    ELSE IF Contains(GIROCARD, haystack) THEN "POS"
    ELSE IF Contains(NICHT_GIRO, haystack) THEN "POS"
    ELSE PyNone

-----------------------------------------------------------------------------
(* SpardaBankParser.parse_record (the transaction assembler)               *)

\* ofxstatement.statement.StatementLine: the constructor sets id, date, memo
\* and amount and resets date_user, payee, check_no and refnum to None;
\* trntype, bank_account_to and currency keep the defaults of the class,
\* and the class's default trntype is "CHECK".
StatementLineDefaultTrntype == "CHECK"

\* the id: value_date.strftime("%Y%m%d") followed by the SHA-1 hex digest of
\* "{reference} {amount} {currency.symbol}".  The digest is kept as the text
\* it is taken of, which treats the hash as injective.
\* f"{x}" of a str or None
FormatStr(x) == IF x = NoneStr THEN <<"N","o","n","e">> ELSE x

TransactionIdOfBookingDate(booking_date, value_date, reference, amount, symbol) ==
    [ymd |-> StrftimeYmd(booking_date),
     sha1_of |-> reference \o <<" ">> \o DecimalStr(amount) \o <<" ">>
                 \o FormatStr(symbol)]
TransactionId(booking_date, value_date, reference, amount, symbol) ==
    [ymd |-> StrftimeYmd(value_date),
     sha1_of |-> reference \o <<" ">> \o DecimalStr(amount) \o <<" ">>
                 \o FormatStr(symbol)]

\* for field in [SepaField.REF, "card_payment_reference"]:
\*     if value := fields.get(field): statement_line.memo = value
MemoOverrideKeepsRef(memo, fields) ==
    IF Get(fields, REF) # <<>> THEN Get(fields, REF)
    ELSE IF Get(fields, K_card_payment_reference) # <<>>
    THEN Get(fields, K_card_payment_reference)
    ELSE memo
MemoOverride(memo, fields) ==
    IF Get(fields, K_card_payment_reference) # <<>>
    THEN Get(fields, K_card_payment_reference)
    ELSE IF Get(fields, REF) # <<>> THEN Get(fields, REF)
    ELSE memo

\* the counterparty bank account (lines 251-277): None, or the BankAccount
\* of the validated IBAN value and the BIC bic
BankAccount(value, bic) ==
    IF bic = None THEN None
    ELSE Some([bank_id |-> bic[1], acct_id |-> value,
               branch_id |-> IF BranchCode(bic[1]) # <<>>
                             THEN Some(BranchCode(bic[1])) ELSE None])

\* bic = schwifty.BIC(bic_value) if the field is there and valid, else
\* iban.bic
BicOf(value, bic_value) ==
    IF bic_value # <<>> /\ BicValid(RemoveChar(bic_value, " "))
    THEN Some(RemoveChar(bic_value, " "))
    ELSE IbanBic(value)

BankAccountOfIbanUnchecked(value, bic_value) ==
    BankAccount(value, Some(RemoveChar(bic_value, " ")))
BankAccountOfIban(value, bic_value) ==
    IF ~IbanValid(value) THEN None
    ELSE BankAccount(value, BicOf(value, bic_value))

BankAccountTo(fields) ==
    IF Get(fields, IBAN) = <<>> THEN None
    ELSE BankAccountOfIban(RemoveChar(Get(fields, IBAN), " "), Get(fields, BIC))

\* statement_line.date_user: booking_date, replaced by the card payment
\* datetime when that field is there and strptime accepts it; r is what
\* strptime makes of the field
DateUser(booking_date, value_date, value, r) ==
    IF value # <<>> /\ r.ok THEN r.dt ELSE booking_date

\* statement_line.trntype (lines 293-296): t is the trntype before the
\* fallback; ok = FALSE when the comparison of the fallback raises
TrntypeFallback(t, amount) ==
    IF t # PyNone THEN [ok |-> TRUE, t |-> t]
    ELSE IF ~DecimalPositive(amount).ok THEN [ok |-> FALSE, t |-> PyNone]
    ELSE [ok |-> TRUE,
          t |-> IF DecimalPositive(amount).val THEN "CREDIT" ELSE "DEBIT"]
TrntypeOf(fields, amount) ==
    TrntypeFallback(IF Get(fields, K_type) # <<>>
                    THEN find_transaction_type(Get(fields, K_type))
                    ELSE StatementLineDefaultTrntype,
                    amount)

\* fields.get(k) as an optional value
GetOptional(fields, k) ==
    IF Get(fields, k) # <<>> THEN Some(Get(fields, k)) ELSE None

\* the statement line assembled from the parsed columns and the decoded
\* fields (lines 229-301)
BuildLine(booking_date, value_date, reference, amount, symbol, fields, trntype) ==
    [id |-> TransactionId(booking_date, value_date, reference, amount, symbol),
     date |-> value_date,
     memo |-> MemoOverride(reference, fields),
     amount |-> amount,
     date_user |-> DateUser(booking_date, value_date,
                            Get(fields, K_card_payment_datetime),
                            Strptime(Get(fields, K_card_payment_datetime), TRUE)),
     currency |-> [symbol |-> symbol],
     bank_account_to |-> BankAccountTo(fields),
     check_no |-> GetOptional(fields, END_TO_END_REF),
     refnum |-> None,
     trntype |-> trntype,
     payee |-> GetOptional(fields, K_recipient)]

\* ... unless the trntype raised
LineOf(booking_date, value_date, reference, amount, symbol, fields, trn) ==
    IF trn.ok
    THEN [ok |-> TRUE,
          line |-> BuildLine(booking_date, value_date, reference, amount,
                             symbol, fields, trn.t)]
    ELSE [ok |-> FALSE]

\* lines 229-301 for the decoded fields
DecodeLine(booking_date, value_date, reference, amount, symbol, fields) ==
    LineOf(booking_date, value_date, reference, amount, symbol, fields,
           TrntypeOf(fields, amount))

\* the columns of a data row; line is the dict DictReader makes of it (a
\* column the row is too short for is None)
Buchungstag(line) == DictGet(line, COL_Buchungstag)
Wertstellungstag(line) == DictGet(line, COL_Wertstellungstag)
Verwendungszweck(line) == DictGet(line, COL_Verwendungszweck)
Umsatz(line) == DictGet(line, COL_Umsatz)
Waehrung(line) == DictGet(line, COL_Waehrung)
HasColumns(line) ==
    \A k \in {COL_Buchungstag, COL_Wertstellungstag, COL_Verwendungszweck,
              COL_Umsatz, COL_Waehrung} : HasKey(line, k)

\* the reference the fields are decoded from
ReferenceOf(line) == remove_superfluous_reference_whitespace(Verwendungszweck(line))

\* parse_record once the columns are parsed: a parse that raised leaves no
\* line
RecordOf(booking_date, value_date, reference, amount, symbol) ==
    IF booking_date.ok /\ value_date.ok /\ amount.ok
    THEN DecodeLine(booking_date.dt, value_date.dt, reference, amount.d,
                    symbol, parse_reference_fields(reference))
    ELSE [ok |-> FALSE]

\* parse_record(line): [ok |-> TRUE, line |-> the StatementLine], or
\* ok = FALSE when the fieldnames lack a column (KeyError), when
\* parse_datetime or parse_decimal raises, or when the purpose text is None
\* (len(None) raises TypeError).  A currency column that is None is taken
\* as it is.
parse_record(line) ==
    IF ~HasColumns(line) THEN [ok |-> FALSE]
    ELSE IF Verwendungszweck(line) = NoneStr THEN [ok |-> FALSE]
    ELSE RecordOf(parse_datetime(Buchungstag(line)),
                  parse_datetime(Wertstellungstag(line)),
                  ReferenceOf(line),
                  parse_decimal(Umsatz(line)),
                  Waehrung(line))

\* the rows split_records yields
split_records_keeps(row) == TRUE
split_records_keeps_row(row) == Buchungstag(row) # NOT_YET_EXECUTED


\* a row csv.reader returns, or the end of the file (next() raises
\* StopIteration)
Eof == [eof |-> TRUE, row |-> <<>>]
Line(r) == [eof |-> FALSE, row |-> r]

KvNamesRow == <<COL_Umsaetze_ab, COL_Enddatum, COL_Kontonummer, COL_Saldo, COL_Waehrung>>
KvValuesRow == <<Day12, Day14, TxtNumber, TxtBalance, EUR>>
KvValuesBadDateRow == <<DayBad, Day14, TxtNumber, TxtBalance, EUR>>
KvValuesBadBalanceRow == <<Day12, Day14, TxtNumber, AmtBad, EUR>>
KvValuesShortRow == <<Day12, Day14, TxtNumber, TxtBalance>>
DataFieldnamesRow ==
    <<COL_Buchungstag, COL_Wertstellungstag, COL_Verwendungszweck, COL_Umsatz, COL_Waehrung>>

\* what a row of the preamble may be
HeaderRowChoices ==
    {<<>>, <<TitleGiro>>, <<TitleTagesgeld>>, <<TitleOther>>,
     <<L_Kontoinhaber, TxtName>>, <<TxtWrongLabel, TxtName>>,
     <<L_Kontoinhaber, TxtName, TxtName>>,
     <<L_Kundennummer, TxtNumber>>,
     <<L_Suchoptionen, L_keine>>, <<L_Suchoptionen, TxtAlle>>,
     KvNamesRow, KvValuesRow, KvValuesBadDateRow, KvValuesBadBalanceRow,
     KvValuesShortRow}
HeaderInputs == {Eof} \cup {Line(r) : r \in HeaderRowChoices}
FieldnamesInputs == {Eof, Line(<<>>), Line(DataFieldnamesRow)}

DataRow(b, v, ref, amt, cur) == <<b, v, ref, amt, cur>>

\* the data rows of the model: every purpose text on one booking, one
\* purpose text with each other column varied, and rows with fewer or more
\* values than there are columns
RowChoices ==
    {DataRow(Day12, Day12, ref, AmtMinus5, EUR) : ref \in Refs}
    \cup {DataRow(b, Day12, RefPlain, Amt5, EUR) : b \in {Day12, Day13, NOT_YET_EXECUTED}}
    \cup {DataRow(Day12, Day14, RefPlain, Amt5, EUR),
          DataRow(Day13, Day14, RefCardBadDate, AmtMinus5, EUR)}
    \cup {DataRow(Day12, Day12, RefPlain, a, EUR) :
            a \in {Amt0, Amt5Short, AmtThousand, AmtThousandNoDot, AmtBad,
                   AmtExp, AmtInf}}
    \cup {DataRow(Day12, Day12, RefPlain, Amt5, USD),
          DataRow(Day12, Day12, RefPlain, Amt5, CurNone),
          DataRow(Day12, DaySpaced999, RefPlain, Amt5, EUR)}
    \cup {<<Day12, Day12, RefPlain, Amt5>>,
          <<Day12, Day12, RefPlain>>,
          <<Day12, Day12, RefPlain, Amt5, EUR, EUR>>}
    \cup {DataRow(Day12, Day12, RefPlain, Amt5, CurWithSpace),
          DataRow(Day12, Day12, RefPlainAmt, Amt5, EUR)}
    \cup {DataRow(NOT_YET_EXECUTED, <<>>, RefCard, <<>>, <<>>)}
DataInputs == {Line(<<>>)} \cup {Line(r) : r \in RowChoices}

\* the most data rows of a file of the model
MaxRows == 2

-----------------------------------------------------------------------------
(* parse_file_header (the header reader)                                   *)

\* the dict csv.DictReader makes of a row, as pairs: dict(zip(fieldnames,
\* row)), then the values the row has too many as a list under the key
\* None (restkey), or None (restval) for every fieldname the row is too
\* short for
DictRow(names, row) ==
    [k \in 1..Len(names) |->
        Pair(names[k], IF k <= Len(row) THEN row[k] ELSE NoneStr)]
    \o (IF Len(row) > Len(names)
        THEN <<Pair(NoneStr, SubSeq(row, Len(names) + 1, Len(row)))>>
        ELSE <<>>)

\* the assertions on the rows of the preamble
TitleRowOk(row) == Len(row) = 1
BlankRowOk(row) == Len(row) = 0
HolderRowOk(row) == Len(row) = 2 /\ row[1] = L_Kontoinhaber
CustomerRowOk(row) == Len(row) = 2 /\ row[1] = L_Kundennummer
OptionsRowOk(row) ==
    Len(row) = 2 /\ row[1] = L_Suchoptionen /\ row[2] = L_keine

\* the key/value row: every column is read, the two dates are parsed
KeyValueRowOk(d) ==
    /\ \A k \in {COL_Umsaetze_ab, COL_Enddatum, COL_Kontonummer, COL_Saldo, COL_Waehrung} :
            HasKey(d, k)
    /\ Strptime(DictGet(d, COL_Umsaetze_ab), FALSE).ok
    /\ Strptime(DictGet(d, COL_Enddatum), FALSE).ok

NoMetadata ==
    [title |-> None, account_type |-> PyNone, customer_name |-> None,
     customer_number |-> None, start_date |-> None, end_date |-> None,
     account_number |-> None, account_balance |-> None, account_currency |-> None]

\* an assertion fails, or next() or a parse raises: parse() raises and
\* returns nothing
Raise(in) ==
    /\ pc' = "failed"
    /\ hdr' = IF pc \in {"fieldnames", "rows"} THEN hdr ELSE Append(hdr, in)
    /\ UNCHANGED <<metadata, kvnames, fieldnames, rows, lines, statement>>

Advance(in, next) ==
    /\ pc' = next
    /\ hdr' = Append(hdr, in)

ReadTitle(in) ==
    /\ pc = "title"
    /\ IF in.eof \/ ~TitleRowOk(in.row) THEN Raise(in)
       ELSE /\ Advance(in, "blank1")
            /\ metadata' = [metadata EXCEPT !.title = Some(in.row[1]),
                               !.account_type = AccountTypeOfTitle(in.row[1])]
            /\ UNCHANGED <<kvnames, fieldnames, rows, lines, statement>>
    /\ UNCHANGED <<normVars, refVars>>

ExpectBlank(in) ==
    /\ pc \in {"blank1", "blank2", "blank3", "blank4"}
    /\ IF in.eof \/ ~BlankRowOk(in.row) THEN Raise(in)
       ELSE /\ Advance(in, CASE pc = "blank1" -> "holder"
                             [] pc = "blank2" -> "kv_names"
                             [] pc = "blank3" -> "blank4"
                             [] pc = "blank4" -> "fieldnames")
            /\ UNCHANGED <<metadata, kvnames, fieldnames, rows, lines, statement>>
    /\ UNCHANGED <<normVars, refVars>>

ReadHolder(in) ==
    /\ pc = "holder"
    /\ IF in.eof \/ ~HolderRowOk(in.row) THEN Raise(in)
       ELSE /\ Advance(in, "customer")
            /\ metadata' = [metadata EXCEPT !.customer_name = Some(in.row[2])]
            /\ UNCHANGED <<kvnames, fieldnames, rows, lines, statement>>
    /\ UNCHANGED <<normVars, refVars>>

ReadCustomer(in) ==
    /\ pc = "customer"
    /\ IF in.eof \/ ~CustomerRowOk(in.row) THEN Raise(in)
       ELSE /\ Advance(in, "blank2")
            /\ metadata' = [metadata EXCEPT !.customer_number = Some(in.row[2])]
            /\ UNCHANGED <<kvnames, fieldnames, rows, lines, statement>>
    /\ UNCHANGED <<normVars, refVars>>

\* csv.DictReader takes its fieldnames from the first row it reads
ReadKeyValueNames(in) ==
    /\ pc = "kv_names"
    /\ IF in.eof THEN Raise(in)
       ELSE /\ Advance(in, "kv_values")
            /\ kvnames' = in.row
            /\ UNCHANGED <<metadata, fieldnames, rows, lines, statement>>
    /\ UNCHANGED <<normVars, refVars>>

\* ... and skips empty rows on its way to the next row
ReadKeyValueRow(in) ==
    /\ pc = "kv_values"
    /\ IF in.eof THEN Raise(in)
       ELSE IF in.row = <<>> THEN UNCHANGED parseVars
       ELSE LET d == DictRow(kvnames, in.row)
            IN  IF ~KeyValueRowOk(d) THEN Raise(in)
                ELSE /\ Advance(in, "options")
                     /\ metadata' = [metadata EXCEPT
                            !.start_date = Some([Strptime(DictGet(d, COL_Umsaetze_ab), FALSE).dt
                                                    EXCEPT !.tz = "Europe/Berlin"]),
                            !.end_date = Some([Strptime(DictGet(d, COL_Enddatum), FALSE).dt
                                                    EXCEPT !.tz = "Europe/Berlin"]),
                            !.account_number = Some(DictGet(d, COL_Kontonummer)),
                            !.account_balance = Some(DictGet(d, COL_Saldo)),
                            !.account_currency = Some(DictGet(d, COL_Waehrung))]
                     /\ UNCHANGED <<kvnames, fieldnames, rows, lines, statement>>
    /\ UNCHANGED <<normVars, refVars>>

ReadOptions(in) ==
    /\ pc = "options"
    /\ IF in.eof \/ ~OptionsRowOk(in.row) THEN Raise(in)
       ELSE /\ Advance(in, "blank3")
            /\ UNCHANGED <<metadata, kvnames, fieldnames, rows, lines, statement>>
    /\ UNCHANGED <<normVars, refVars>>

-----------------------------------------------------------------------------
(* SpardaBankParser.parse, split_records and the statement assembler       *)

\* the bank identifier of the settings (tests/test_spardabank.py) and the
\* bank code the model's registry gives for it
ConfiguredBic == <<"G","E","N","O","D","E","D","1","S","P","E">>
ConfiguredBankCode == Some(<<"3","6","0","6","0","5","9","1">>)

\* the stamping of the statement (lines 194-206); end_balance is
\* parse_decimal of the header's balance, which may raise
StampStatement(md, ls) ==
    [lines |-> ls,
     account_id |-> IF ConfiguredBankCode # None
                    THEN Some([country_code |-> <<"D", "E">>,
                               bank_code |-> ConfiguredBankCode[1],
                               account_code |-> md.account_number[1]])
                    ELSE None,
     bank_id |-> IF ConfiguredBankCode # None THEN Some(ConfiguredBic) ELSE None,
     currency |-> md.account_currency[1],
     start_date |-> md.start_date[1],
     end_date |-> md.end_date[1],
     end_balance |-> parse_decimal(md.account_balance[1]).d,
     account_type |-> md.account_type]

\* fieldnames = next(reader) (line 189)
ReadFieldnames(in) ==
    /\ pc = "fieldnames"
    /\ IF in.eof THEN Raise(in)
       ELSE /\ pc' = "rows"
            /\ fieldnames' = in.row
            /\ UNCHANGED <<hdr, metadata, kvnames, rows, lines, statement>>
    /\ UNCHANGED <<normVars, refVars>>

\* the loop body of StatementParser.parse: r is what parse_record made of
\* the row
AppendRecord(in, r) ==
    IF ~r.ok
    THEN /\ pc' = "failed"
         /\ rows' = Append(rows, in.row)
         /\ UNCHANGED <<hdr, metadata, kvnames, fieldnames, lines, statement>>
    ELSE /\ rows' = Append(rows, in.row)
         /\ lines' = Append(lines, r.line)
         /\ UNCHANGED <<pc, hdr, metadata, kvnames, fieldnames, statement>>

\* split_records: line is the dict DictReader made of the row
SplitRecord(in, line) ==
    IF ~HasKey(line, COL_Buchungstag) THEN Raise(in)
    ELSE IF ~split_records_keeps_row(line)
    THEN /\ rows' = Append(rows, in.row)
         /\ UNCHANGED <<pc, hdr, metadata, kvnames, fieldnames, lines, statement>>
    ELSE AppendRecord(in, parse_record(line))

\* One turn of the loop of StatementParser.parse over split_records():
\* DictReader skips an empty row; split_records drops the rows not yet
\* executed; parse_record turns the row into a line, which is appended.
ReadRow(in) ==
    /\ pc = "rows"
    /\ Len(rows) < MaxRows
    /\ ~in.eof
    /\ IF in.row = <<>> THEN UNCHANGED parseVars
       ELSE SplitRecord(in, DictRow(fieldnames, in.row))
    /\ UNCHANGED <<normVars, refVars>>

\* the reader is exhausted: the statement is stamped and returned
EndOfFile ==
    /\ pc = "rows"
    /\ IF ~parse_decimal(metadata.account_balance[1]).ok
       THEN /\ pc' = "failed"
            /\ UNCHANGED statement
       ELSE /\ pc' = "done"
            /\ statement' = Some(StampStatement(metadata, lines))
    /\ UNCHANGED <<hdr, metadata, kvnames, fieldnames, rows, lines>>
    /\ UNCHANGED <<normVars, refVars>>

InitParse ==
    /\ pc = "title"
    /\ hdr = <<>>
    /\ kvnames = <<>>
    /\ metadata = NoMetadata
    /\ fieldnames = <<>>
    /\ rows = <<>>
    /\ lines = <<>>
    /\ statement = None

IdleNorm == npc = "idle" /\ nin = <<>> /\ nvalue = <<>> /\ ni = 0 /\ nlog = <<>>
IdleRef == rpc = "idle" /\ rref = <<>> /\ rfields = <<>>
IdleParse ==
    /\ pc = "idle" /\ hdr = <<>> /\ kvnames = <<>> /\ metadata = NoMetadata
    /\ fieldnames = <<>> /\ rows = <<>> /\ lines = <<>> /\ statement = None

Init == InitParse /\ IdleNorm /\ IdleRef

Next ==
    \/ \E in \in HeaderInputs : ReadTitle(in)
    \/ \E in \in HeaderInputs : ExpectBlank(in)
    \/ \E in \in HeaderInputs : ReadHolder(in)
    \/ \E in \in HeaderInputs : ReadCustomer(in)
    \/ \E in \in HeaderInputs : ReadKeyValueNames(in)
    \/ \E in \in HeaderInputs : ReadKeyValueRow(in)
    \/ \E in \in HeaderInputs : ReadOptions(in)
    \/ \E in \in FieldnamesInputs : ReadFieldnames(in)
    \/ \E in \in DataInputs : ReadRow(in)
    \/ EndOfFile

Spec == Init /\ [][Next]_vars


-----------------------------------------------------------------------------
(* remove_superfluous_reference_whitespace, one loop iteration at a time    *)

\* bs[1] + bs[2] + ... of a sequence of strings
RECURSIVE Concat(_)
Concat(bs) == IF bs = <<>> THEN <<>> ELSE Head(bs) \o Concat(Tail(bs))

\* The strings of the model are put together from these blocks: a run of
\* non-space characters as long as the offset of the first index visited,
\* a single space and a single tab.
NormBlocks == {[k \in 1..NormStart |-> "a"], <<" ">>, <<"\t">>}

\* the most blocks of a string of the model
MaxBlocks == 6

NormInputs ==
    {Concat(bs) : bs \in UNION {[1..n -> NormBlocks] : n \in 0..MaxBlocks}}

\* the call: i = 53 (line 372)
NormCall ==
    /\ npc = "idle"
    /\ npc' = "loop"
    /\ nvalue' = nin
    /\ ni' = NormStart
    /\ UNCHANGED <<nin, nlog, parseVars, refVars>>

\* one iteration of the while loop (lines 373-376); nlog records the index
\* visited, the character found there and the value before and after
NormStep ==
    /\ npc = "loop"
    /\ ni < Len(nvalue)
    /\ nvalue' = NormIter(nvalue, ni)
    /\ ni' = ni + NormStride
    /\ nlog' = Append(nlog, [i |-> ni, ch |-> At(nvalue, ni),
                             before |-> nvalue, after |-> nvalue'])
    /\ UNCHANGED <<npc, nin, parseVars, refVars>>

\* the loop condition fails: return value (line 377)
NormReturn ==
    /\ npc = "loop"
    /\ ~(ni < Len(nvalue))
    /\ npc' = "done"
    /\ UNCHANGED <<nin, nvalue, ni, nlog, parseVars, refVars>>

InitNorm ==
    /\ IdleParse /\ IdleRef
    /\ npc = "idle" /\ nin \in NormInputs /\ nvalue = <<>> /\ ni = 0 /\ nlog = <<>>

NextNorm == NormCall \/ NormStep \/ NormReturn

SpecNorm == InitNorm /\ [][NextNorm]_vars

\* the interpreter runs the loop on: no iteration waits for ever
SpecNormFair == SpecNorm /\ WF_vars(NextNorm)

-----------------------------------------------------------------------------
(* parse_reference_fields on references put together from pieces            *)

\* the pieces: tag markers, whitespace, words, a letter that is not ASCII,
\* a type suffix and a card payment text
RefPieces ==
    {REF, END_TO_END_REF, <<" ">>, <<"\n">>, <<"\t">>, RefPlain, <<"X">>,
     <<"ß">>, SEPA_LOHN_GEHALT, RefCardNoRef}

\* the most pieces of a reference of the model
MaxPieces == 3

RefInputs ==
    {Concat(bs) : bs \in UNION {[1..n -> RefPieces] : n \in 0..MaxPieces}}

\* dict(self.parse_reference_fields(reference)) is built from these pairs
RefParse ==
    /\ rpc = "idle"
    /\ rpc' = "done"
    /\ rfields' = parse_reference_fields(rref)
    /\ UNCHANGED <<rref, parseVars, normVars>>

InitRef ==
    /\ IdleParse /\ IdleNorm
    /\ rpc = "idle" /\ rref \in RefInputs /\ rfields = <<>>

NextRef == RefParse

SpecRef == InitRef /\ [][NextRef]_vars


-----------------------------------------------------------------------------
(* The properties checked                                                  *)

\* the rows parse_record is called on, in file order: the rows handed out
\* whose booking-date column is not the marker.  lines[i] is made of
\* KeptRows[i]; a row that makes parse_record raise is the last one.
KeptRows == SelectSeq(rows, LAMBDA r : r[1] # NOT_YET_EXECUTED)

\* the normalized purpose text of a row and the fields decoded from it
RowReference(r) == remove_superfluous_reference_whitespace(r[3])
RowFields(r) == parse_reference_fields(RowReference(r))

\* the k-th column of a row as DictReader hands it out: None when the row
\* is too short for it
Col(r, k) == IF k <= Len(r) THEN r[k] ELSE NoneStr

TxtRentPayment == <<"R","e","n","t"," ","p","a","y","m","e","n","t">>  \* "Rent payment"
TxtRentPaymentUnsplit == <<"R","e","n","t"," ","p","a","y","m","e","n","t"," ","E","R","E","F","+","X","1","2","3">>  \* "Rent payment EREF+X123"
TxtX123 == <<"X","1","2","3">>  \* "X123"

\* C1 (as amended): a tag marker needs a space after its "+".  For the
\* purpose text "SVWZ+ Rent payment EREF+X123" the transaction's memo is
\* "Rent payment EREF+X123" and its check_no is unset; for
\* "SVWZ+ Rent payment EREF+ X123" the memo is "Rent payment" and the
\* check_no "X123".  A statement returned for a file whose title contains
\* "SpardaGiro" has account type CHECKING.
C1_RentScenario ==
    /\ \A i \in 1..Len(lines) :
        /\ KeptRows[i][3] = RefRentUnspaced =>
              /\ lines[i].memo = TxtRentPaymentUnsplit
              /\ lines[i].check_no = None
        /\ KeptRows[i][3] = RefRentSpaced =>
              /\ lines[i].memo = TxtRentPayment
              /\ lines[i].check_no = Some(TxtX123)
    /\ (pc = "done" /\ Contains(SpardaGiro, hdr[1].row[1])) =>
          statement[1].account_type = "CHECKING"

\* a SpardaGiro file with the row of the scenario has been parsed
C1_RentScenarioParsed ==
    /\ pc = "done"
    /\ hdr[1].row = <<TitleGiro>>
    /\ Len(lines) >= 1
    /\ KeptRows[1][3] = RefRentUnspaced

\* C1 as stated: memo "Rent payment" and check_no "X123" for the purpose
\* text "SVWZ+ Rent payment EREF+X123"
C1_AsStated ==
    /\ \A i \in 1..Len(lines) :
          KeptRows[i][3] = RefRentUnspaced =>
              /\ lines[i].memo = TxtRentPayment
              /\ lines[i].check_no = Some(TxtX123)
    /\ (pc = "done" /\ Contains(SpardaGiro, hdr[1].row[1])) =>
          statement[1].account_type = "CHECKING"

\* C2: while parse has not raised, the transactions are those of the rows
\* whose booking-date column is not the marker, one each and in file order;
\* a row with the marker yields no transaction and is not what makes parse
\* raise (a parse that raised on a data row, the header's balance being
\* well-formed, raised on an executed row); the statement returned holds
\* these transactions.
C2_OneLinePerExecutedRow ==
    /\ pc \in {"rows", "done"} =>
        /\ Len(lines) = Len(KeptRows)
        /\ \A i \in 1..Len(lines) :
              /\ KeptRows[i][1] # NOT_YET_EXECUTED
              /\ lines[i] = parse_record(DictRow(DataFieldnamesRow, KeptRows[i])).line
    /\ (pc = "failed" /\ rows # <<>> /\ parse_decimal(metadata.account_balance[1]).ok) =>
          rows[Len(rows)][1] # NOT_YET_EXECUTED
    /\ pc = "done" => statement[1].lines = lines

\* a file with a marker row and an executed row has been parsed
C2_MarkerRowSkipped ==
    /\ pc = "done"
    /\ Len(rows) = 2
    /\ rows[1][1] = NOT_YET_EXECUTED
    /\ rows[2][1] # NOT_YET_EXECUTED
    /\ Len(lines) = 1

\* the shape the k-th row of the preamble is asserted to have (the rows of
\* the key/value table, k = 6 and 7, are read by name instead)
HeaderShapeOk(k, in) ==
    /\ ~in.eof
    /\ CASE k = 1 -> Len(in.row) = 1
         [] k \in {2, 5, 9, 10} -> in.row = <<>>
         [] k = 3 -> Len(in.row) = 2 /\ in.row[1] = L_Kontoinhaber
         [] k = 4 -> Len(in.row) = 2 /\ in.row[1] = L_Kundennummer
         [] k = 8 -> /\ Len(in.row) = 2
                     /\ in.row[1] = L_Suchoptionen
                     /\ in.row[2] = L_keine
         [] OTHER -> TRUE

\* C3 for the rows the code asserts the shape of (all but the two rows of
\* the key/value table): such a row that deviates from its shape is the
\* last row read: parse has raised, no data row was read, no transaction
\* was made and no statement is returned.  Data rows are read only after
\* the whole preamble was read with each of these rows in shape, and a
\* statement is returned only by a parse that did not raise.
C3_HeaderDeviationFails ==
    /\ \A k \in 1..Len(hdr) :
          ~HeaderShapeOk(k, hdr[k]) =>
              /\ pc = "failed"
              /\ k = Len(hdr)
              /\ rows = <<>> /\ lines = <<>> /\ statement = None
    /\ (rows # <<>> \/ lines # <<>>) =>
          /\ Len(hdr) = 10
          /\ \A k \in 1..10 : HeaderShapeOk(k, hdr[k])
    /\ pc = "failed" => statement = None
    /\ statement # None => pc = "done"

\* parse has raised on a search-options row whose second field is not
\* "keine"
C3_OptionsRowRejected ==
    /\ pc = "failed"
    /\ Len(hdr) = 8
    /\ hdr[8] = Line(<<L_Suchoptionen, TxtAlle>>)

\* the shape with the field count of the key/value row: as many values as
\* the table has columns (start date, end date, account number, balance,
\* currency)
HeaderShapeAsStated(k, in) ==
    /\ HeaderShapeOk(k, in)
    /\ k = 7 => Len(in.row) = Len(KvNamesRow)

\* C3 as stated: a row of the preamble with a wrong field count, a wrong
\* label or a wrong literal, the key/value row included, is the last row
\* read: parse has raised, no data row was read, no transaction was made
\* and no statement is returned.
C3_AsStated ==
    /\ \A k \in 1..Len(hdr) :
          ~HeaderShapeAsStated(k, hdr[k]) =>
              /\ pc = "failed"
              /\ k = Len(hdr)
              /\ rows = <<>> /\ lines = <<>> /\ statement = None
    /\ (rows # <<>> \/ lines # <<>>) =>
          /\ Len(hdr) = 10
          /\ \A k \in 1..10 : HeaderShapeAsStated(k, hdr[k])
    /\ pc = "failed" => statement = None
    /\ statement # None => pc = "done"


\* a == b of two Decimals: equal as numbers, whatever their exponents; an
\* infinity equals the infinity of its sign, a NaN nothing
DecimalEq(a, b) ==
    IF a.kind = "finite" /\ b.kind = "finite"
    THEN /\ a.coef * Pow10(a.exp - Min(a.exp, b.exp))
              = b.coef * Pow10(b.exp - Min(a.exp, b.exp))
         /\ (a.coef = 0 \/ a.neg = b.neg)
    ELSE a.kind = "Infinity" /\ b.kind = "Infinity" /\ a.neg = b.neg

\* the text the SHA-1 digest of the id is taken of, from what the line and
\* its row hold
HashedText(i) ==
    RowReference(KeptRows[i]) \o <<" ">> \o DecimalStr(lines[i].amount)
        \o <<" ">> \o FormatStr(lines[i].currency.symbol)

\* the currency of a line is there and holds no space
PlainCurrency(i) ==
    /\ lines[i].currency.symbol # NoneStr
    /\ ~Contains(<<" ">>, lines[i].currency.symbol)

\* C4 (as amended): treating the hash as injective, the id is a function of
\* the day of the value date and of the text "{purpose text} {amount}
\* {currency}", with the normalized purpose text, the amount as str()
\* prints it and a missing currency printed as "None".  Two rows that agree
\* on the value date, the normalized purpose text, the printed amount and
\* the currency get the same id, whatever their booking dates and decoded
\* fields; two rows that differ in one of these get different ids provided
\* neither currency is missing or holds a space.
C4_IdDeterminedByFourColumns ==
    \A i, j \in 1..Len(lines) :
        /\ lines[i].id = lines[j].id <=>
              /\ StrftimeYmd(lines[i].date) = StrftimeYmd(lines[j].date)
              /\ HashedText(i) = HashedText(j)
        /\ (/\ lines[i].date = lines[j].date
            /\ RowReference(KeptRows[i]) = RowReference(KeptRows[j])
            /\ DecimalStr(lines[i].amount) = DecimalStr(lines[j].amount)
            /\ lines[i].currency = lines[j].currency)
           => lines[i].id = lines[j].id
        /\ (/\ lines[i].id = lines[j].id
            /\ PlainCurrency(i)
            /\ PlainCurrency(j))
           => /\ lines[i].date = lines[j].date
              /\ RowReference(KeptRows[i]) = RowReference(KeptRows[j])
              /\ DecimalStr(lines[i].amount) = DecimalStr(lines[j].amount)
              /\ lines[i].currency = lines[j].currency

\* two rows that differ in their booking dates only have got the same id
C4_SameIdAcrossBookingDates ==
    /\ Len(lines) = 2
    /\ KeptRows[1][1] # KeptRows[2][1]
    /\ lines[1].date_user # lines[2].date_user
    /\ Tail(KeptRows[1]) = Tail(KeptRows[2])
    /\ lines[1].id = lines[2].id

\* C4 as stated: two lines have the same id exactly if they agree on the
\* value date, the purpose text before the override, the amount and the
\* currency
C4_AsStated ==
    \A i, j \in 1..Len(lines) :
        lines[i].id = lines[j].id <=>
            /\ lines[i].date = lines[j].date
            /\ RowReference(KeptRows[i]) = RowReference(KeptRows[j])
            /\ DecimalEq(lines[i].amount, lines[j].amount)
            /\ lines[i].currency = lines[j].currency

\* C6 as stated: the memo is the REF field if one was decoded, else the
\* card_payment_reference field if one was decoded, else the normalized
\* purpose text
C6_AsStated ==
    \A i \in 1..Len(lines) :
        lines[i].memo = MemoOverrideKeepsRef(RowReference(KeptRows[i]),
                                             RowFields(KeptRows[i]))

\* the card payment datetime of a row, as strptime reads it (strptime
\* rejects the empty string, which stands for a field that is not there)
RowCardDateTime(r) == Strptime(Get(RowFields(r), K_card_payment_datetime), TRUE)

\* C7 with the booking date, which is what the code does: date_user is
\* the card payment datetime when a card_payment_datetime field was
\* decoded and strptime accepts it; in every other case it is the row's
\* booking date.
C7_DateUserIsCardOrBookingDate ==
    \A i \in 1..Len(lines) :
        LET card == RowCardDateTime(KeptRows[i])
        IN  IF card.ok
            THEN lines[i].date_user = card.dt
            ELSE lines[i].date_user = parse_datetime(KeptRows[i][1]).dt

\* a card payment whose datetime strptime rejects, booked on the 13th with
\* value date the 14th, and a card payment whose datetime it accepts
C7_CardAndPlainRowParsed ==
    /\ Len(lines) = 2
    /\ KeptRows[1] = DataRow(Day13, Day14, RefCardBadDate, AmtMinus5, EUR)
    /\ lines[1].date_user # lines[1].date
    /\ KeptRows[2][3] = RefCard
    /\ lines[2].date_user = NaiveDateTime(2024, 2, 12, 10, 11, 12)

\* C7 as stated: without a card payment datetime that parses, date_user is
\* the row's value date
C7_AsStated ==
    \A i \in 1..Len(lines) :
        LET card == RowCardDateTime(KeptRows[i])
        IN  IF card.ok
            THEN lines[i].date_user = card.dt
            ELSE lines[i].date_user = parse_datetime(KeptRows[i][2]).dt

\* C8 as stated: without a type field the trntype is CREDIT for an amount
\* above 0 and DEBIT for one below 0; with a type field it is the first
\* match of the list; it is never unset
C8_AsStated ==
    \A i \in 1..Len(lines) :
        LET type == Get(RowFields(KeptRows[i]), K_type)
        IN  /\ lines[i].trntype # PyNone
            /\ type # <<>> => lines[i].trntype = find_transaction_type(type)
            /\ (/\ type = <<>>
                /\ DecimalPositive(lines[i].amount).ok
                /\ DecimalPositive(lines[i].amount).val) =>
                  lines[i].trntype = "CREDIT"
            /\ (/\ type = <<>>
                /\ lines[i].amount.kind = "finite"
                /\ lines[i].amount.neg /\ lines[i].amount.coef > 0) =>
                  lines[i].trntype = "DEBIT"

\* the decoded fields without those of key k
FieldsWithout(fields, k) == SelectSeq(fields, LAMBDA p : p[1] # k)

\* the IBAN and BIC fields of a row with their spaces removed
RowIban(r) == RemoveChar(Get(RowFields(r), IBAN), " ")
RowBic(r) == RemoveChar(Get(RowFields(r), BIC), " ")
RowHasValidBic(r) == Get(RowFields(r), BIC) # <<>> /\ BicValid(RowBic(r))

\* the line parse_record would make of row r had it decoded no IBAN field
LineWithoutIbanField(r) ==
    DecodeLine(parse_datetime(r[1]).dt, parse_datetime(r[2]).dt,
               RowReference(r), parse_decimal(Col(r, 4)).d, Col(r, 5),
               FieldsWithout(RowFields(r), IBAN)).line

\* C9: a row whose columns parse yields a transaction whatever its fields
\* decode to.  If its IBAN field is no IBAN, the transaction has no
\* bank_account_to and is otherwise the one the row would yield without the
\* IBAN field.  If the IBAN field is an IBAN and there is no BIC field that
\* is a BIC, the bank account carries the BIC the registry gives for the
\* IBAN, and there is none if the registry gives none.  A bank account is
\* set only with an IBAN and a BIC.
C9_FieldDecodeFailureKeepsRow ==
    \A i \in 1..Len(KeptRows) :
        LET r == KeptRows[i]
            hasIban == Get(RowFields(r), IBAN) # <<>>
            iban == RowIban(r)
            ibanOk == IbanValid(iban)
            bicOk == RowHasValidBic(r)
        IN
        /\ (/\ parse_datetime(r[1]).ok
            /\ parse_datetime(r[2]).ok
            /\ parse_decimal(Col(r, 4)).ok) => i <= Len(lines)
        /\ i <= Len(lines) =>
            /\ (hasIban /\ ~ibanOk)
               => /\ lines[i].bank_account_to = None
                  /\ lines[i] = LineWithoutIbanField(r)
            /\ (hasIban /\ ibanOk /\ ~bicOk)
               => IF IbanBic(iban) = None
                  THEN lines[i].bank_account_to = None
                  ELSE /\ lines[i].bank_account_to # None
                       /\ lines[i].bank_account_to[1].acct_id = iban
                       /\ lines[i].bank_account_to[1].bank_id = IbanBic(iban)[1]
            /\ lines[i].bank_account_to # None
               => /\ hasIban
                  /\ ibanOk
                  /\ bicOk \/ IbanBic(iban) # None

\* a row whose IBAN field is no IBAN and a row whose BIC field is no BIC
\* have both yielded a transaction, the second with the registry's BIC
C9_BadIbanAndBadBicParsed ==
    /\ Len(lines) = 2
    /\ KeptRows[1][3] = RefTransferBadIban
    /\ lines[1].bank_account_to = None
    /\ lines[1].payee # None
    /\ KeptRows[2][3] = RefTransferBadBic
    /\ lines[2].bank_account_to # None
    /\ lines[2].bank_account_to[1].bank_id = <<"C","O","B","A","D","E","F","F","X","X","X">>


\* a tag marker at s[p:]: a word boundary, n uppercase letters, "+", " "
TagMarkerAt(s, p, n) ==
    /\ p + n + 2 <= Len(s)
    /\ \A k \in 1..n : s[p + k] \in Upper
    /\ s[p + n + 1] = "+"
    /\ s[p + n + 2] = " "
    /\ (p = 0 \/ s[p] \notin WordChars)
HasTagMarker(s) == \E p \in 0..Len(s) : \E n \in {3, 4} : TagMarkerAt(s, p, n)

\* t is s without the whitespace around it
IsTrimOf(t, s) ==
    /\ t # <<>> => t[1] \notin Whitespace /\ t[Len(t)] \notin Whitespace
    /\ \E a \in 0..(Len(s) - Len(t)) :
          /\ t = SubSeq(s, a + 1, a + Len(t))
          /\ \A k \in (1..a) \cup ((a + Len(t) + 1)..Len(s)) :
                s[k] \in Whitespace

\* v is t up to the start of one of its lines
IsLinesPrefixOf(v, t) ==
    /\ Len(v) <= Len(t)
    /\ v = SubSeq(t, 1, Len(v))
    /\ v # <<>> => v[Len(v)] = "\n"

\* the trimmed string ends with a type suffix or matches the card payment
\* pattern
DefaultFieldSplits(s) ==
    \/ \E k \in 1..Len(Suffixes) : EndsWith(Strip(s), Suffixes[k])
    \/ CardSearch(Strip(s)).ok

\* C5 (as amended): for a reference without a tag marker
\* parse_reference_fields yields exactly one pair with the tag default, as
\* its last pair.  If the trimmed string neither ends with a type suffix
\* nor matches the card payment pattern, this is the only pair and its
\* value is the trimmed string.  Otherwise the pairs parse_default_field
\* makes of the trimmed string come first, a type pair among them, and
\* the default value is empty for a type suffix and else the lines of the
\* trimmed string before the line the card payment text is on: the
\* card_payment_reference follows it in the trimmed string and holds no
\* line break.
C5_UntaggedYieldsOneDefault ==
    (rpc = "done" /\ ~HasTagMarker(rref)) =>
        /\ Len(rfields) >= 1
        /\ \A k \in 1..Len(rfields) : rfields[k][1] = K_default <=> k = Len(rfields)
        /\ IF DefaultFieldSplits(rref)
           THEN /\ Len(rfields) > 1
                /\ \E k \in 1..(Len(rfields) - 1) : rfields[k][1] = K_type
                /\ IF \E k \in 1..Len(Suffixes) : EndsWith(Strip(rref), Suffixes[k])
                   THEN rfields[Len(rfields)][2] = <<>>
                   ELSE /\ IsLinesPrefixOf(rfields[Len(rfields)][2], Strip(rref))
                        /\ ~Contains(<<"\n">>, DictGet(rfields, K_card_payment_reference))
                        /\ StartsWithAt(Strip(rref), 0,
                                        rfields[Len(rfields)][2]
                                        \o DictGet(rfields, K_card_payment_reference))
           ELSE /\ Len(rfields) = 1
                /\ IsTrimOf(rfields[1][2], rref)

\* an untagged reference with a card payment text on its second line has
\* been tokenized: the first line is the default value
C5_UntaggedCardOnSecondLine ==
    /\ rpc = "done"
    /\ ~HasTagMarker(rref)
    /\ rref = RefPlain \o <<"\n">> \o RefCardNoRef
    /\ rfields[Len(rfields)] = Pair(K_default, RefPlain \o <<"\n">>)

\* C5 as stated: a reference without a tag marker yields exactly one pair,
\* default with the trimmed string
C5_AsStated ==
    (rpc = "done" /\ ~HasTagMarker(rref)) =>
        /\ Len(rfields) = 1
        /\ rfields[1][1] = K_default
        /\ IsTrimOf(rfields[1][2], rref)

\* what the k-th iteration of the loop started from
NormBefore(k) == IF k = 1 THEN nin ELSE nlog[k - 1].after

\* C10: the loop visits the indices 53, 107, 161, ... of the string as the
\* iterations before left it; an iteration deletes the character it visits
\* if that is a space and else changes nothing, so at most one character
\* goes per visit and the non-space characters stay as they were, in their
\* order; a string shorter than 54 characters is returned unchanged; what
\* is returned is what the function called in one step returns; and every
\* call returns.
C10_LoopInvariant ==
    /\ npc # "idle" => RemoveChar(nvalue, " ") = RemoveChar(nin, " ")
    /\ \A k \in 1..Len(nlog) :
        /\ nlog[k].i = 53 + 54 * (k - 1)
        /\ nlog[k].before = NormBefore(k)
        /\ nlog[k].ch = nlog[k].before[nlog[k].i + 1]
        /\ IF nlog[k].ch = " "
           THEN /\ Len(nlog[k].after) = Len(nlog[k].before) - 1
                /\ \A j \in 1..Len(nlog[k].after) :
                      nlog[k].after[j] =
                          nlog[k].before[IF j <= nlog[k].i THEN j ELSE j + 1]
           ELSE nlog[k].after = nlog[k].before
    /\ npc = "done" =>
        /\ nvalue = remove_superfluous_reference_whitespace(nin)
        /\ Len(nin) < 54 => nvalue = nin
        /\ 53 + 54 * Len(nlog) >= Len(nvalue)
C10_NormalizerDeletesOnlySpacesAndTerminates ==
    /\ []C10_LoopInvariant
    /\ <>(npc = "done")

\* a call has returned after deleting the spaces it met at the indices 53
\* and 107
C10_TwoSpacesDeleted ==
    /\ npc = "done"
    /\ Len(nlog) >= 2
    /\ nlog[1].ch = " " /\ nlog[2].ch = " "
    /\ Len(nvalue) = Len(nin) - 2

=============================================================================
